---- MODULE Spec2Model ----
(***************************************************************************)
(* A model of scheinfirmen-at: the parser of the BMF extract               *)
(* (parse.py), the validator (validate.py), the three serializers          *)
(* (convert.py), the cross-format verifier (verify.py) and the driver      *)
(* (cli.py), and the download of the extract (download.py).                *)
(*                                                                         *)
(* Texts.  A Python str, and the content of a file, is modelled as a       *)
(* sequence of atoms.  An atom is a string holding one character ("~",     *)
(* " ", "#", a digit, ...) or a run of ordinary letters that no operation  *)
(* of the program looks into ("Name", "Anschrift").  The empty str is      *)
(* <<>>.  An HTML or XML entity is one atom ("&quot;").  "SOH" stands for  *)
(* the control character U+0001 and "BOM" for the byte order mark.         *)
(*                                                                         *)
(* Optional values.  A value of type `str | None` is <<>> for None and     *)
(* <<t>> for the str t.                                                    *)
(***************************************************************************)
EXTENDS Integers, Sequences, FiniteSets, TLC

VARIABLES
    raw_data,     \* the input handed to parse_bmf_csv, a text
    p_state,      \* where parse_bmf_csv stands: "start", "loop", "returned", "raised"
    lines,        \* parse_bmf_csv: the lines of the normalized text
    line_no,      \* parse_bmf_csv: the 1-based number of the next line
    records,      \* parse_bmf_csv: the records appended so far
    stand_datum,  \* parse_bmf_csv: optional text
    stand_zeit,   \* parse_bmf_csv: optional text
    p_error,      \* the ValueError parse_bmf_csv raised, or NoError
    result,       \* what parse_bmf_csv returned: optional ParseResult
    pc,           \* where the caller of parse_bmf_csv stands (main, or a test)
    args,         \* main: the command line read so far, [min_rows, skip_verify]
    env,          \* which optional packages the interpreter has, [lxml, jsonschema]
    validation,   \* what validate_records returned: optional ValidationResult
    files,        \* the output directory: five optional file contents
    verify_errors,\* what verify_outputs returned: optional list of errors
    raised,       \* the exception that left the last call uncaught: optional name
    exit_status,  \* the exit status of the process: optional number
    calls,        \* the stages called so far, in order
    download      \* download_csv: its arguments, its locals and what it did so far

pvars == <<raw_data, p_state, lines, line_no, records, stand_datum, stand_zeit, p_error, result>>
dvars == <<pc, args, env, validation, files, verify_errors, raised, exit_status, calls>>
vars == <<raw_data, p_state, lines, line_no, records, stand_datum, stand_zeit, p_error, result,
          pc, args, env, validation, files, verify_errors, raised, exit_status, calls,
          download>>

-----------------------------------------------------------------------------
(* Bounds of the model *)

\* The number of lines after the header in an input.
MaxLines == 3

\* The number of lines after a header that is not the canonical one.
MaxLinesOther == 1

\* The number of records in a batch that is written and read back.
MaxRecords == 2

\* The largest --min-rows.
MaxMinRows == 2
MaxFindings == 2
MaxExpected == 2

\* The length of a register reference code as the BMF file holds it.
MaxKennziffer == 5

\* The largest `retries` of download_csv.
MaxRetries == 4

-----------------------------------------------------------------------------
(* str operations *)

None == <<>>
Some(v) == <<v>>

LF == "\n"
CR == "\r"
TILDE == "~"

\* The characters str.strip() removes.
IsWS(a) == a \in {" ", "\t", "\n", "\r"}

RECURSIVE LStrip(_)
LStrip(s) == IF s # <<>> /\ IsWS(Head(s)) THEN LStrip(Tail(s)) ELSE s

RECURSIVE RStrip(_)
RStrip(s) ==
    IF s # <<>> /\ IsWS(s[Len(s)]) THEN RStrip(SubSeq(s, 1, Len(s) - 1)) ELSE s

\* str.strip()
Strip(s) == RStrip(LStrip(s))

RECURSIVE LStripChar(_, _)
LStripChar(s, c) == IF s # <<>> /\ Head(s) = c THEN LStripChar(Tail(s), c) ELSE s

RECURSIVE RStripChar(_, _)
RStripChar(s, c) ==
    IF s # <<>> /\ s[Len(s)] = c THEN RStripChar(SubSeq(s, 1, Len(s) - 1), c) ELSE s

\* str.strip(c) for a single character c: every leading and trailing c goes.
StripChar(s, c) == RStripChar(LStripChar(s, c), c)

\* str.split(d): always at least one part.
Split(s, d) ==
    LET pos == {i \in 1..Len(s) : s[i] = d}
        n == Cardinality(pos)
        Nth(k) == CHOOSE i \in pos : Cardinality({j \in pos : j < i}) = k - 1
    IN  [k \in 1..(n + 1) |->
            SubSeq(s, (IF k = 1 THEN 1 ELSE Nth(k - 1) + 1),
                      (IF k = n + 1 THEN Len(s) ELSE Nth(k) - 1))]

\* d.join(parts)
RECURSIVE Join(_, _)
Join(parts, d) ==
    IF parts = <<>> THEN <<>>
    ELSE IF Len(parts) = 1 THEN parts[1]
    ELSE parts[1] \o <<d>> \o Join(Tail(parts), d)

\* text.replace("\r\n", "\n").replace("\r", "\n"): the "\n" of every "\r\n" goes,
\* then every "\r" becomes "\n".
NormalizeNewlines(s) ==
    LET gone == {i \in 2..Len(s) : s[i] = LF /\ s[i - 1] = CR}
        g == Cardinality(gone)
        Src(k) == CHOOSE i \in k..(k + g) :
                      i \notin gone /\ i - Cardinality({j \in gone : j < i}) = k
    IN  [k \in 1..(Len(s) - g) |-> IF s[Src(k)] = CR THEN LF ELSE s[Src(k)]]

\* html.unescape on one atom: an entity becomes its character.
UnescapeAtom(a) ==
    CASE a = "&quot;" -> "\""
      [] a = "&amp;"  -> "&"
      [] a = "&lt;"   -> "<"
      [] a = "&gt;"   -> ">"
      [] a = "&#10;"  -> "\n"
      [] a = "&#13;"  -> "\r"
      [] OTHER        -> a

\* html.unescape
HtmlUnescape(s) == [i \in 1..Len(s) |-> UnescapeAtom(s[i])]

Digits == {"0", "1", "2", "3", "4", "5", "6", "7", "8", "9"}

DigitVal(a) ==
    CASE a = "0" -> 0 [] a = "1" -> 1 [] a = "2" -> 2 [] a = "3" -> 3 [] a = "4" -> 4
      [] a = "5" -> 5 [] a = "6" -> 6 [] a = "7" -> 7 [] a = "8" -> 8 [] a = "9" -> 9

DigitAtom(n) == <<"0", "1", "2", "3", "4", "5", "6", "7", "8", "9">>[n + 1]

AllDigits(s) == \A i \in 1..Len(s) : s[i] \in Digits

\* int(s) for a text of digits
RECURSIVE IntOf(_)
IntOf(s) == IF s = <<>> THEN 0 ELSE 10 * IntOf(SubSeq(s, 1, Len(s) - 1)) + DigitVal(s[Len(s)])

\* str(n) for n >= 0
RECURSIVE StrOfInt(_)
StrOfInt(n) == IF n < 10 THEN <<DigitAtom(n)>> ELSE StrOfInt(n \div 10) \o <<DigitAtom(n % 10)>>

\* "%02d" % n
TwoDigits(n) == <<DigitAtom((n \div 10) % 10), DigitAtom(n % 10)>>

\* The atoms that stand for the control character U+0001 and the byte order mark.
SOH == "SOH"
BOM == "BOM"

\* The parts of ss from lo to hi, one after the other.
RECURSIVE ConcatRange(_, _, _)
ConcatRange(ss, lo, hi) ==
    IF lo > hi THEN <<>>
    ELSE IF lo = hi THEN ss[lo]
    ELSE ConcatRange(ss, lo, (lo + hi) \div 2) \o ConcatRange(ss, (lo + hi) \div 2 + 1, hi)

\* "".join(ss)
Concat(ss) == ConcatRange(ss, 1, Len(ss))

\* sep.join(parts) for a text sep
JoinWith(parts, sep) ==
    Concat([i \in 1..Len(parts) |-> IF i = 1 THEN parts[i] ELSE sep \o parts[i]])

\* The ends of the lines of a text read with universal newlines: "\n", "\r\n"
\* and a "\r" that no "\n" follows.
LineEnds(s) ==
    {i \in 1..Len(s) : s[i] = LF \/ (s[i] = CR /\ ~(i < Len(s) /\ s[i + 1] = LF))}

\* The lines of a file opened with newline="": each with its terminator.
FileLinesRaw(s) ==
    LET ends == LineEnds(s)
        n == Cardinality(ends)
        End(k) == IF k = 0 THEN 0
                  ELSE CHOOSE i \in ends : Cardinality({j \in ends : j <= i}) = k
        rest == Len(s) > End(n)
    IN  [k \in 1..(n + (IF rest THEN 1 ELSE 0)) |->
            SubSeq(s, End(k - 1) + 1, IF k <= n THEN End(k) ELSE Len(s))]

\* One line as the default text mode hands it over: its terminator is "\n".
TranslateEnd(line) ==
    LET n == Len(line) IN
    IF n >= 2 /\ line[n - 1] = CR /\ line[n] = LF THEN SubSeq(line, 1, n - 2) \o <<LF>>
    ELSE IF n >= 1 /\ line[n] = CR THEN SubSeq(line, 1, n - 1) \o <<LF>>
    ELSE line

\* The lines of a file opened in the default text mode.
FileLines(s) == [k \in 1..Len(FileLinesRaw(s)) |-> TranslateEnd(FileLinesRaw(s)[k])]

\* Values a reader hands back: a Python str, None, an int, a dict.
PyStr(s) == [t |-> "str", v |-> s]
PyNone == [t |-> "None", v |-> <<>>]
PyInt(s) == [t |-> "int", v |-> s]
PyDict == [t |-> "dict", v |-> <<>>]

Upper ==
    {"A", "B", "C", "D", "E", "F", "G", "H", "I", "J", "K", "L", "M",
     "N", "O", "P", "Q", "R", "S", "T", "U", "V", "W", "X", "Y", "Z"}
Lower ==
    {"a", "b", "c", "d", "e", "f", "g", "h", "i", "j", "k", "l", "m",
     "n", "o", "p", "q", "r", "s", "t", "u", "v", "w", "x", "y", "z"}

-----------------------------------------------------------------------------
(* parse.py *)

\* EXPECTED_HEADERS ("Veroeffentlichung" stands for the name with o-umlaut)
EXPECTED_HEADERS ==
    << <<"Name">>, <<"Anschrift">>, <<"Veroeffentlichung">>, <<"Rechtskraft Bescheid">>,
       <<"Zeitpunkt als Scheinunternehmen">>, <<"Geburts-Datum">>, <<"Firmenbuch-Nr">>,
       <<"UID-Nr.">>, <<"Kennziffer des UR">> >>

IsLeap(y) == (y % 4 = 0 /\ y % 100 # 0) \/ y % 400 = 0

DaysInMonth(y, m) ==
    IF m = 2 THEN (IF IsLeap(y) THEN 29 ELSE 28)
    ELSE IF m \in {4, 6, 9, 11} THEN 30 ELSE 31

\* The directive %d of strptime: 3[0-1] | [1-2]\d | 0[1-9] | [1-9]
MatchesDay(p) ==
    /\ AllDigits(p)
    /\ \/ Len(p) = 1 /\ IntOf(p) >= 1
       \/ Len(p) = 2 /\ IntOf(p) \in 1..31

\* The directive %m of strptime: 1[0-2] | 0[1-9] | [1-9]
MatchesMonth(p) ==
    /\ AllDigits(p)
    /\ \/ Len(p) = 1 /\ IntOf(p) >= 1
       \/ Len(p) = 2 /\ IntOf(p) \in 1..12

\* The directive %Y of strptime: \d\d\d\d
MatchesYear(p) == AllDigits(p) /\ Len(p) = 4

\* (a strptime that takes any day up to 31 in any month)
StrptimeOk_anyDay(s) ==
    LET p == Split(s, ".") IN
    /\ Len(p) = 3
    /\ MatchesDay(p[1]) /\ MatchesMonth(p[2]) /\ MatchesYear(p[3])
    /\ IntOf(p[3]) >= 1

\* datetime.strptime(s, "%d.%m.%Y") succeeds: the three directives match the whole
\* of s and datetime accepts the day, month and year (MINYEAR is 1).
StrptimeOk(s) ==
    LET p == Split(s, ".") IN
    /\ Len(p) = 3
    /\ MatchesDay(p[1]) /\ MatchesMonth(p[2]) /\ MatchesYear(p[3])
    /\ IntOf(p[3]) >= 1
    /\ IntOf(p[1]) <= DaysInMonth(IntOf(p[3]), IntOf(p[2]))

\* d.strftime("%Y-%m-%d"): %m and %d are zero-padded to two digits; %Y is the
\* C library's, which prints the year as a plain decimal number.
Strftime(y, m, d) == StrOfInt(y) \o <<"-">> \o TwoDigits(m) \o <<"-">> \o TwoDigits(d)

\* _convert_date: whether it returns (otherwise it raises ValueError)
ConvertDateOk(date_str) == StrptimeOk(Strip(date_str))

\* _convert_date: what it returns
_convert_date(date_str) ==
    LET p == Split(Strip(date_str), ".")
    IN  Strftime(IntOf(p[3]), IntOf(p[2]), IntOf(p[1]))

\* _clean_field
_clean_field(value) == Strip(HtmlUnescape(value))

\* _clean_kennziffer
_clean_kennziffer(value) ==
    LET cleaned == Strip(StripChar(Strip(HtmlUnescape(value)), "\""))
    IN  IF cleaned # <<>> THEN Some(cleaned) ELSE None

\* opt, local to parse_bmf_csv
opt(v) == LET cleaned == _clean_field(v) IN IF cleaned # <<>> THEN Some(cleaned) ELSE None

\* opt_date, local to parse_bmf_csv: whether it returns
OptDateOk(v) == LET cleaned == _clean_field(v) IN cleaned = <<>> \/ ConvertDateOk(cleaned)

\* opt_date: what it returns
opt_date(v) ==
    LET cleaned == _clean_field(v)
    IN  IF cleaned # <<>> THEN Some(_convert_date(cleaned)) ELSE None

\* Length of the run of whitespace that starts s.
RECURSIVE WsRun(_)
WsRun(s) == IF s # <<>> /\ IsWS(Head(s)) THEN 1 + WsRun(Tail(s)) ELSE 0

\* \d{2}\.\d{2}\.\d{4}
IsStandDate(s) ==
    /\ Len(s) = 10
    /\ \A i \in {1, 2, 4, 5, 7, 8, 9, 10} : s[i] \in Digits
    /\ s[3] = "." /\ s[6] = "."

\* \d{2}:\d{2}:\d{2}
IsStandTime(s) ==
    /\ Len(s) = 8
    /\ \A i \in {1, 2, 4, 5, 7, 8} : s[i] \in Digits
    /\ s[3] = ":" /\ s[6] = ":"

StandPrefix == <<"S", "t", "a", "n", "d", ":">>

\* _RE_STAND.match(s): ^Stand:\s+(date)\s+(time)\s*$ ; the answer is
\* [matched, date, time].
StandMatch(s) ==
    LET NoMatch == [matched |-> FALSE, date |-> <<>>, time |-> <<>>]
        n  == Len(s)
        r1 == SubSeq(s, 7, n)
        w1 == WsRun(r1)
        r2 == SubSeq(r1, w1 + 1, Len(r1))
        r3 == SubSeq(r2, 11, Len(r2))
        w2 == WsRun(r3)
        r4 == SubSeq(r3, w2 + 1, Len(r3))
        r5 == SubSeq(r4, 9, Len(r4))
    IN  IF /\ n >= 6 /\ SubSeq(s, 1, 6) = StandPrefix
           /\ w1 >= 1
           /\ Len(r2) >= 10 /\ IsStandDate(SubSeq(r2, 1, 10))
           /\ w2 >= 1
           /\ Len(r4) >= 8 /\ IsStandTime(SubSeq(r4, 1, 8))
           /\ WsRun(r5) = Len(r5)
        THEN [matched |-> TRUE, date |-> SubSeq(r2, 1, 10), time |-> SubSeq(r4, 1, 8)]
        ELSE NoMatch

\* The ValueError of parse_bmf_csv: which one, and what its message carries.
NoError == [kind |-> "none", line |-> 0, count |-> 0, value |-> <<>>]
HeaderError == [kind |-> "header", line |-> 0, count |-> 0, value |-> <<>>]
EmptyInputError == [kind |-> "empty", line |-> 0, count |-> 0, value |-> <<>>]
\* (a 0-based line number in the message)
FieldCountError_zeroBased(n, c) ==
    [kind |-> "field_count", line |-> n - 1, count |-> c, value |-> <<>>]
FieldCountError(n, c) == [kind |-> "field_count", line |-> n, count |-> c, value |-> <<>>]
DateError(v) == [kind |-> "date", line |-> 0, count |-> 0, value |-> v]
NoStandError == [kind |-> "no_stand", line |-> 0, count |-> 0, value |-> <<>>]

\* text.split("\n") of the normalized text
InputLines(raw) == Split(NormalizeNewlines(raw), LF)

\* (a header check that compares the number of columns only)
HeaderOk_countOnly(line) == Len(Split(line, TILDE)) = Len(EXPECTED_HEADERS)

\* The header check: actual_headers == EXPECTED_HEADERS
HeaderOk(line) ==
    LET raw_headers == Split(line, TILDE)
        actual_headers == [i \in 1..Len(raw_headers) |-> Strip(raw_headers[i])]
    IN  actual_headers = EXPECTED_HEADERS

\* The fields of a data row: a trailing empty 10th part is dropped.
RowFields(line) ==
    LET fields == Split(line, TILDE)
    IN  IF Len(fields) = 10 /\ fields[10] = <<>> THEN SubSeq(fields, 1, 9) ELSE fields

\* (the optional dates taken as they are)
FirstBadDate_requiredOnly(fields) ==
    IF ~ConvertDateOk(_clean_field(fields[3])) THEN 3
    ELSE IF ~ConvertDateOk(_clean_field(fields[4])) THEN 4
    ELSE 0

\* The date fields of a row in the order the record's constructor evaluates them.
\* The answer is the first one _convert_date rejects (0: none).
FirstBadDate(fields) ==
    IF ~ConvertDateOk(_clean_field(fields[3])) THEN 3
    ELSE IF ~ConvertDateOk(_clean_field(fields[4])) THEN 4
    ELSE IF ~OptDateOk(fields[5]) THEN 5
    ELSE IF ~OptDateOk(fields[6]) THEN 6
    ELSE 0

\* ScheinfirmaRecord(...) of parse_bmf_csv
MakeRecord(fields) ==
    [name            |-> _clean_field(fields[1]),
     anschrift       |-> _clean_field(fields[2]),
     veroeffentlicht |-> _convert_date(_clean_field(fields[3])),
     rechtskraeftig  |-> _convert_date(_clean_field(fields[4])),
     seit            |-> opt_date(fields[5]),
     geburtsdatum    |-> opt_date(fields[6]),
     fbnr            |-> opt(fields[7]),
     uid             |-> opt(fields[8]),
     kennziffer      |-> _clean_kennziffer(fields[9])]

\* (the record put first)
AppendRecord_first(recs, r) == <<r>> \o recs

\* records.append(record)
AppendRecord(recs, r) == Append(recs, r)

\* One pass of the loop of parse_bmf_csv over the line with number n.  st holds
\* the function's locals: [records, stand_datum, stand_zeit, error]; an error
\* other than NoError means the pass raised.
ParseLine(st, line, n) ==
    LET stripped == Strip(line)
        m == StandMatch(stripped)
        fields == RowFields(line)
    IN  IF stripped = <<>> THEN st
        ELSE IF m.matched
        THEN IF ConvertDateOk(m.date)
             THEN [st EXCEPT !.stand_datum = Some(_convert_date(m.date)),
                             !.stand_zeit = Some(m.time)]
             ELSE [st EXCEPT !.error = DateError(m.date)]
        ELSE IF Len(fields) # 9
        THEN [st EXCEPT !.error = FieldCountError(n, Len(fields))]
        ELSE IF FirstBadDate(fields) # 0
        THEN [st EXCEPT !.error = DateError(_clean_field(fields[FirstBadDate(fields)]))]
        ELSE [st EXCEPT !.records = AppendRecord(@, MakeRecord(fields))]

\* (the Stand line found is not looked at)
StandMissing_always(sd, sz) == TRUE

\* The test after the loop: stand_datum is None or stand_zeit is None
StandMissing(sd, sz) == sd = None \/ sz = None

\* (a count of the rows that takes the Stand line for one)
ParseResult_withStand(recs, sd, sz) ==
    [records |-> recs, stand_datum |-> sd, stand_zeit |-> sz, raw_row_count |-> Len(recs) + 1]

\* ParseResult(...)
ParseResult(recs, sd, sz) ==
    [records |-> recs, stand_datum |-> sd, stand_zeit |-> sz, raw_row_count |-> Len(recs)]

\* The locals of parse_bmf_csv when its loop starts.
ParseLocals0 == [records |-> <<>>, stand_datum |-> None, stand_zeit |-> None, error |-> NoError]

-----------------------------------------------------------------------------
(* validate.py *)

\* _RE_ISO_DATE.match(v): ^\d{4}-\d{2}-\d{2}$ ; "$" also matches before a final "\n".
_RE_ISO_DATE(v) ==
    LET s == IF v # <<>> /\ v[Len(v)] = LF THEN SubSeq(v, 1, Len(v) - 1) ELSE v
    IN  /\ Len(s) = 10
        /\ \A i \in {1, 2, 3, 4, 6, 7, 9, 10} : s[i] \in Digits
        /\ s[5] = "-" /\ s[8] = "-"

\* _RE_UID.match(v): ^ATU\d{8}$
_RE_UID(v) ==
    LET s == IF v # <<>> /\ v[Len(v)] = LF THEN SubSeq(v, 1, Len(v) - 1) ELSE v
    IN  /\ Len(s) = 11
        /\ s[1] = "A" /\ s[2] = "T" /\ s[3] = "U"
        /\ \A i \in 4..11 : s[i] \in Digits

\* _RE_FIRMENBUCH.match(v): ^\d{5,6}[a-zA-Z]$
_RE_FIRMENBUCH(v) ==
    LET s == IF v # <<>> /\ v[Len(v)] = LF THEN SubSeq(v, 1, Len(v) - 1) ELSE v
    IN  /\ Len(s) \in {6, 7}
        /\ \A i \in 1..(Len(s) - 1) : s[i] \in Digits
        /\ s[Len(s)] \in Upper \cup Lower

\* _RE_KENNZIFFER.match(v): ^R\d{3}[A-Z]\d{3,4}[A-Z0-9]?$
_RE_KENNZIFFER(v) ==
    LET s == IF v # <<>> /\ v[Len(v)] = LF THEN SubSeq(v, 1, Len(v) - 1) ELSE v
        Shape(d, tail) ==
            /\ Len(s) = 5 + d + tail
            /\ s[1] = "R"
            /\ \A i \in 2..4 : s[i] \in Digits
            /\ s[5] \in Upper
            /\ \A i \in 6..(5 + d) : s[i] \in Digits
            /\ tail = 1 => s[Len(s)] \in Upper \cup Digits
    IN  \E d \in {3, 4}, tail \in {0, 1} : Shape(d, tail)

\* ValidationError(row, field, value, message); the message is fixed by the field.
ValidationError(row, field, value) == [row |-> row, field |-> field, value |-> value]

\* The attributes of the record that _validate_record reads, every one on
\* every call, in this order.
ValidateReads ==
    <<"name", "anschrift", "veroeffentlichung", "rechtskraeftig", "seit", "geburtsdatum",
      "uid_nr", "firmenbuch_nr", "kennziffer_ur">>

\* What a call of the validator gives: the exception it raised, or two lists.
Raises(exc) == [raised |-> Some(exc), errors |-> <<>>, warnings |-> <<>>]
Returns(errors, warnings) == [raised |-> None, errors |-> errors, warnings |-> warnings]

\* _validate_record: reading an attribute the record does not have raises
\* AttributeError.
_validate_record(row, rec) ==
    IF \E i \in 1..Len(ValidateReads) : ValidateReads[i] \notin DOMAIN rec
    THEN Raises("AttributeError")
    ELSE LET Err(field, bad, value) ==
                 IF bad THEN <<ValidationError(row, field, value)>> ELSE <<>>
             OptBad(v, Matches(_)) == v # None /\ ~Matches(v[1])
         IN  Returns(
                 Err("name", rec.name = <<>>, Some(rec.name))
                 \o Err("anschrift", rec.anschrift = <<>>, Some(rec.anschrift))
                 \o Err("veroeffentlichung", ~_RE_ISO_DATE(rec.veroeffentlichung),
                        Some(rec.veroeffentlichung))
                 \o Err("rechtskraeftig", ~_RE_ISO_DATE(rec.rechtskraeftig),
                        Some(rec.rechtskraeftig))
                 \o Err("seit", OptBad(rec.seit, _RE_ISO_DATE), rec.seit)
                 \o Err("geburtsdatum", OptBad(rec.geburtsdatum, _RE_ISO_DATE),
                        rec.geburtsdatum)
                 \o Err("uid_nr", OptBad(rec.uid_nr, _RE_UID), rec.uid_nr)
                 \o Err("firmenbuch_nr", OptBad(rec.firmenbuch_nr, _RE_FIRMENBUCH),
                        rec.firmenbuch_nr),
                 Err("kennziffer_ur", OptBad(rec.kennziffer_ur, _RE_KENNZIFFER),
                     rec.kennziffer_ur))

\* validate_records
validate_records(res, min_rows) ==
    LET n == Len(res.records)
        row_count ==
            IF n < min_rows
            THEN <<ValidationError(0, "row_count", Some(StrOfInt(n)))>>
            ELSE <<>>
        rows == [i \in 1..n |-> _validate_record(i, res.records[i])]
    IN  IF \E i \in 1..n : rows[i].raised # None
        THEN Raises("AttributeError")
        ELSE Returns(row_count \o Concat([i \in 1..n |-> rows[i].errors]),
                     Concat([i \in 1..n |-> rows[i].warnings]))

\* (a result that is ok whatever its errors)
ok_always(v) == TRUE

\* (a result that is ok only without any finding)
ok_noFindings(v) == Len(v.errors) = 0 /\ Len(v.warnings) = 0

\* ValidationResult.ok
ok(v) == Len(v.errors) = 0

-----------------------------------------------------------------------------
(* convert.py *)

\* CSV_HEADERS ("oe" and "ae" stand for the umlauts)
CSV_HEADERS ==
    << <<"Name">>, <<"Anschrift">>, <<"Veroeffentlichung">>, <<"Rechtskraeftig">>, <<"Seit">>,
       <<"Geburts-Datum">>, <<"Firmenbuch-Nr">>, <<"UID-Nr.">>, <<"Kennziffer des UR">> >>

\* _FIELD_ORDER
_FIELD_ORDER ==
    <<"name", "anschrift", "veroeffentlicht", "rechtskraeftig", "seit", "geburtsdatum",
      "fbnr", "uid", "kennziffer">>

\* BMF_URL of download.py and the two schema locations, each one atom.
BMF_URL == "https://service.bmf.gv.at/service/allg/lsu/__Gen_Csv.asp"
JSON_SCHEMA_URL ==
    "https://raw.githubusercontent.com/arjoma/scheinfirmen-at/main/data/scheinfirmen.json-schema.json"
XSD_URL == "https://raw.githubusercontent.com/arjoma/scheinfirmen-at/main/data/scheinfirmen.xsd"

\* _record_to_dict: the keys in _FIELD_ORDER, each with its value, a str | None.
_record_to_dict(rec) ==
    [i \in 1..Len(_FIELD_ORDER) |->
        [key   |-> _FIELD_ORDER[i],
         value |-> IF i <= 4 THEN Some(rec[_FIELD_ORDER[i]]) ELSE rec[_FIELD_ORDER[i]]]]

\* csv.writer with QUOTE_MINIMAL: a field is quoted when it holds the
\* delimiter, the quote character or a character of the line terminator.
CsvNeedsQuotes(field) == \E i \in 1..Len(field) : field[i] \in {",", "\"", CR, LF}

CsvQuoted(field) ==
    <<"\"">>
        \o Concat([i \in 1..Len(field) |->
                      IF field[i] = "\"" THEN <<"\"", "\"">> ELSE <<field[i]>>])
        \o <<"\"">>

\* writer.writerow(row): the line terminator is "\r\n"
writerow(row) ==
    JoinWith([i \in 1..Len(row) |->
                 IF CsvNeedsQuotes(row[i]) THEN CsvQuoted(row[i]) ELSE row[i]],
             <<",">>)
        \o <<CR, LF>>

\* The row of a record: None is written as the empty str.
CsvRow(rec) ==
    [i \in 1..Len(_FIELD_ORDER) |->
        IF _record_to_dict(rec)[i].value = None THEN <<>> ELSE _record_to_dict(rec)[i].value[1]]

\* write_csv: the content of the file it writes (utf-8-sig puts the BOM first).
write_csv(res) ==
    <<BOM, "#", " ">> \o StandPrefix \o <<" ">> \o res.stand_datum \o <<" ">> \o res.stand_zeit
        \o <<LF>>
        \o writerow(CSV_HEADERS)
        \o Concat([i \in 1..Len(res.records) |-> writerow(CsvRow(res.records[i]))])

\* json.dumps of one character of a str, with ensure_ascii=False
JsonEscape(a) ==
    CASE a = "\"" -> <<"\\", "\"">>
      [] a = "\\" -> <<"\\", "\\">>
      [] a = LF   -> <<"\\", "n">>
      [] a = CR   -> <<"\\", "r">>
      [] a = "\t" -> <<"\\", "t">>
      [] a = SOH  -> <<"\\", "u", "0", "0", "0", "1">>
      [] OTHER    -> <<a>>

\* json.dumps of a str
JsonString(s) == <<"\"">> \o Concat([i \in 1..Len(s) |-> JsonEscape(s[i])]) \o <<"\"">>

\* (None dumped as the empty str)
JsonValue_empty(v) == IF v = None THEN JsonString(<<>>) ELSE JsonString(v[1])

\* json.dumps of a str | None
JsonValue(v) == IF v = None THEN <<"null">> ELSE JsonString(v[1])

\* json.dumps of a dict whose values are already dumped: items is a sequence
\* of [key, text].
JsonObject(items) ==
    <<"{">>
        \o JoinWith([i \in 1..Len(items) |->
                        JsonString(<<items[i].key>>) \o <<":", " ">> \o items[i].text],
                    <<",", " ">>)
        \o <<"}">>

\* The metadata line of write_jsonl.
JsonlMetadata(res) ==
    JsonObject(<<
        [key |-> "$schema", text |-> JsonString(<<JSON_SCHEMA_URL>>)],
        [key |-> "_metadata",
         text |-> JsonObject(<<
             [key |-> "stand", text |-> JsonString(res.stand_datum \o <<"T">> \o res.stand_zeit)],
             [key |-> "source", text |-> JsonString(<<BMF_URL>>)],
             [key |-> "count", text |-> StrOfInt(res.raw_row_count)] >>)] >>)

\* The line of a record in write_jsonl.
JsonlRecord(rec) ==
    JsonObject([i \in 1..Len(_FIELD_ORDER) |->
                   [key  |-> _record_to_dict(rec)[i].key,
                    text |-> JsonValue(_record_to_dict(rec)[i].value)]])

\* (a writer that leaves out the records without a name)
write_jsonl_named(res) ==
    JsonlMetadata(res) \o <<LF>>
        \o Concat([i \in 1..Len(res.records) |->
                      IF res.records[i].name = <<>> THEN <<>>
                      ELSE JsonlRecord(res.records[i]) \o <<LF>>])

\* write_jsonl: the content of the file it writes.
write_jsonl(res) ==
    JsonlMetadata(res) \o <<LF>>
        \o Concat([i \in 1..Len(res.records) |-> JsonlRecord(res.records[i]) \o <<LF>>])

\* ElementTree, _escape_cdata: one character of an element's text
XmlEscapeText(a) ==
    CASE a = "&" -> "&amp;"
      [] a = "<" -> "&lt;"
      [] a = ">" -> "&gt;"
      [] OTHER   -> a

\* ElementTree, _escape_attrib: one character of an attribute's value
XmlEscapeAttr(a) ==
    CASE a = "&"  -> "&amp;"
      [] a = "<"  -> "&lt;"
      [] a = ">"  -> "&gt;"
      [] a = "\"" -> "&quot;"
      [] a = CR   -> "&#13;"
      [] a = LF   -> "&#10;"
      [] a = "\t" -> "&#09;"
      [] OTHER    -> a

\* One attribute of a start tag.
XmlAttr(name, value) ==
    <<" ", name, "=", "\"">> \o [i \in 1..Len(value) |-> XmlEscapeAttr(value[i])] \o <<"\"">>

\* The attributes of a record's element: every field but the name that is not None.
XmlRecordAttrs(rec) ==
    Concat([i \in 1..(Len(_FIELD_ORDER) - 1) |->
               IF _record_to_dict(rec)[i + 1].value = None THEN <<>>
               ELSE XmlAttr(_record_to_dict(rec)[i + 1].key,
                            _record_to_dict(rec)[i + 1].value[1])])

\* The element of a record; an element without text is written as an empty tag.
XmlRecord(rec) ==
    <<"<", "scheinfirma">> \o XmlRecordAttrs(rec)
        \o (IF rec.name = <<>> THEN <<" ", "/", ">">>
            ELSE <<">">> \o [i \in 1..Len(rec.name) |-> XmlEscapeText(rec.name[i])]
                     \o <<"<", "/", "scheinfirma", ">">>)

XML_DECLARATION == "<?xml version='1.0' encoding='utf-8'?>"

\* write_xml: the content of the file it writes, indented by ET.indent.
write_xml(res) ==
    <<XML_DECLARATION, LF, "<", "scheinfirmen">>
        \o XmlAttr("xmlns:xsi", <<"http://www.w3.org/2001/XMLSchema-instance">>)
        \o XmlAttr("xsi:noNamespaceSchemaLocation", <<XSD_URL>>)
        \o XmlAttr("stand", res.stand_datum)
        \o XmlAttr("zeit", res.stand_zeit)
        \o XmlAttr("quelle", <<BMF_URL>>)
        \o XmlAttr("anzahl", StrOfInt(res.raw_row_count))
        \o (IF res.records = <<>> THEN <<" ", "/", ">">>
            ELSE <<">">>
                 \o Concat([i \in 1..Len(res.records) |->
                               <<LF, " ", " ">> \o XmlRecord(res.records[i])])
                 \o <<LF, "<", "/", "scheinfirmen", ">">>)

\* What each of write_csv, write_jsonl and write_xml returns.
WrittenCount(res) == Len(res.records)

-----------------------------------------------------------------------------
(* verify.py: the reader of the CSV file *)

\* The state of csv.reader: the parser's state, the field and the row being
\* read, and the rows handed out so far.
CsvReader0 == [state |-> "START_RECORD", field |-> <<>>, row |-> <<>>, rows |-> <<>>]

CsvAddChar(st, c, next) == [st EXCEPT !.state = next, !.field = Append(@, c)]
CsvSaveField(st, next) ==
    [st EXCEPT !.state = next, !.field = <<>>, !.row = Append(@, st.field)]

\* _csv.c, parse_process_char, on a character of the line
CsvChar(st, c) ==
    LET StartField ==
            IF c \in {LF, CR} THEN CsvSaveField(st, "EAT_CRNL")
            ELSE IF c = "\"" THEN [st EXCEPT !.state = "IN_QUOTED_FIELD"]
            ELSE IF c = "," THEN CsvSaveField(st, "START_FIELD")
            ELSE CsvAddChar(st, c, "IN_FIELD")
    IN  CASE st.state = "START_RECORD" ->
                 IF c \in {LF, CR} THEN [st EXCEPT !.state = "EAT_CRNL"] ELSE StartField
          [] st.state = "START_FIELD" -> StartField
          [] st.state = "IN_FIELD" ->
                 IF c \in {LF, CR} THEN CsvSaveField(st, "EAT_CRNL")
                 ELSE IF c = "," THEN CsvSaveField(st, "START_FIELD")
                 ELSE CsvAddChar(st, c, "IN_FIELD")
          [] st.state = "IN_QUOTED_FIELD" ->
                 IF c = "\"" THEN [st EXCEPT !.state = "QUOTE_IN_QUOTED_FIELD"]
                 ELSE CsvAddChar(st, c, "IN_QUOTED_FIELD")
          [] st.state = "QUOTE_IN_QUOTED_FIELD" ->
                 IF c = "\"" THEN CsvAddChar(st, c, "IN_QUOTED_FIELD")
                 ELSE IF c = "," THEN CsvSaveField(st, "START_FIELD")
                 ELSE IF c \in {LF, CR} THEN CsvSaveField(st, "EAT_CRNL")
                 ELSE CsvAddChar(st, c, "IN_FIELD")
          [] st.state = "EAT_CRNL" ->
                 IF c \in {LF, CR} THEN st ELSE [st EXCEPT !.state = "Error"]
          [] OTHER -> st

\* parse_process_char on the end of a line, and Reader_iternext after it: in the
\* state START_RECORD the row is handed out.
CsvEndOfLine(st) ==
    LET s1 == CASE st.state \in {"START_FIELD", "IN_FIELD", "QUOTE_IN_QUOTED_FIELD"} ->
                       CsvSaveField(st, "START_RECORD")
                [] st.state = "EAT_CRNL" -> [st EXCEPT !.state = "START_RECORD"]
                [] OTHER -> st
    IN  IF s1.state = "START_RECORD"
        THEN [s1 EXCEPT !.rows = Append(@, s1.row), !.row = <<>>]
        ELSE s1

\* The characters lo..hi of a line through the parser.
RECURSIVE CsvFeed(_, _, _, _)
CsvFeed(st, line, lo, hi) ==
    IF lo > hi THEN st
    ELSE IF lo = hi THEN CsvChar(st, line[lo])
    ELSE LET left == CsvFeed(st, line, lo, (lo + hi) \div 2)
         IN  IF left = left THEN CsvFeed(left, line, (lo + hi) \div 2 + 1, hi) ELSE left

\* The lines lo..hi of the input through the parser.
RECURSIVE CsvFeedLines(_, _, _, _)
CsvFeedLines(st, ls, lo, hi) ==
    IF lo > hi THEN st
    ELSE IF lo = hi THEN CsvEndOfLine(CsvFeed(st, ls[lo], 1, Len(ls[lo])))
    ELSE LET left == CsvFeedLines(st, ls, lo, (lo + hi) \div 2)
         IN  IF left = left THEN CsvFeedLines(left, ls, (lo + hi) \div 2 + 1, hi) ELSE left

\* list(csv.reader(ls)): at the end of the input a field left open in quotes
\* is handed out with its row.  The answer is [raised, rows].
CsvRows(ls) ==
    LET st == CsvFeedLines(CsvReader0, ls, 1, Len(ls))
    IN  [raised |-> st.state = "Error",
         rows   |-> IF st.state = "IN_QUOTED_FIELD" \/ st.field # <<>>
                    THEN Append(st.rows, Append(st.row, st.field))
                    ELSE st.rows]

\* csv.DictReader and row.get("Name", ""): the first row gives the field names,
\* empty rows are skipped, a row too short for the column gives None.
DictReaderNames(rows) ==
    LET fieldnames == rows[1]
        cols == {k \in 1..Len(fieldnames) : fieldnames[k] = <<"Name">>}
        col == CHOOSE k \in cols : \A j \in cols : j <= k
        data == SelectSeq(Tail(rows), LAMBDA r : r # <<>>)
    IN  IF rows = <<>> THEN <<>>
        ELSE [i \in 1..Len(data) |->
                 IF cols = {} THEN PyStr(<<>>)
                 ELSE IF col <= Len(data[i]) THEN PyStr(data[i][col])
                 ELSE PyNone]

\* What a reader of the verifier answers: [raised, count, names].
ReaderRaises == [raised |-> TRUE, count |-> 0, names |-> <<>>]
ReaderReturns(count, names) ==
    [raised |-> FALSE, count |-> count,
     names |-> IF Len(names) >= 2 THEN <<names[1], names[Len(names)]>> ELSE names]

\* Decoding with utf-8-sig: a BOM at the start of the file is dropped.
DecodeUtf8Sig(content) ==
    IF content # <<>> /\ content[1] = BOM THEN Tail(content) ELSE content

\* line.startswith("#")
IsCommentLine(line) == line # <<>> /\ line[1] = "#"

\* _count_csv on a file: an optional content
_count_csv(file) ==
    IF file = None THEN ReaderRaises
    ELSE LET non_comment_lines ==
                 SelectSeq(FileLinesRaw(DecodeUtf8Sig(file[1])),
                           LAMBDA line : ~IsCommentLine(line))
             read == CsvRows(non_comment_lines)
         IN  IF read.raised THEN ReaderRaises
             ELSE ReaderReturns(Len(DictReaderNames(read.rows)), DictReaderNames(read.rows))

-----------------------------------------------------------------------------
(* verify.py: the reader of the JSONL file *)

\* The state of json.loads on a line that holds an object: the mode, the
\* nesting depth, the key and the text being read, and the items of the
\* outermost object, each [key, value].
JsonDecoder0 ==
    [mode |-> "start", depth |-> 0, key |-> <<>>, cur |-> <<>>, u |-> <<>>, items |-> <<>>]

JsonStructural == {"{", "}", "[", "]", ":", ",", "\"", "\\"}
JsonControl == {LF, CR, "\t", SOH}

\* What \uXXXX stands for.
JsonUnicode(u) == IF u = <<"0", "0", "0", "1">> THEN SOH ELSE "U+"

\* A value of the outermost object is complete.
JsonPut(st, value) ==
    IF st.depth = 1
    THEN [st EXCEPT !.mode = "after", !.cur = <<>>,
                    !.items = Append(@, [key |-> st.key, value |-> value])]
    ELSE [st EXCEPT !.mode = "after", !.cur = <<>>]

\* An object is closed.
JsonClose(st) ==
    IF st.depth = 1 THEN [st EXCEPT !.mode = "end", !.depth = 0]
    ELSE JsonPut([st EXCEPT !.depth = @ - 1], PyDict)

\* A literal: null, or a number.
JsonLiteralOk(s) == s = <<"null">> \/ (s # <<>> /\ AllDigits(s))
JsonLiteral(s) == IF s = <<"null">> THEN PyNone ELSE PyInt(s)

JsonBad(st) == [st EXCEPT !.mode = "bad"]

\* After a value: "," or "}".
JsonAfter(st, c) ==
    IF IsWS(c) THEN st
    ELSE IF c = "," THEN [st EXCEPT !.mode = "key"]
    ELSE IF c = "}" THEN JsonClose(st)
    ELSE JsonBad(st)

\* One character through the decoder.
JsonChar(st, c) ==
    CASE st.mode = "start" ->
             IF IsWS(c) THEN st
             ELSE IF c = "{" THEN [st EXCEPT !.mode = "first_key", !.depth = 1]
             ELSE JsonBad(st)
      [] st.mode \in {"first_key", "key"} ->
             IF IsWS(c) THEN st
             ELSE IF c = "\"" THEN [st EXCEPT !.mode = "in_key", !.cur = <<>>]
             ELSE IF c = "}" /\ st.mode = "first_key" THEN JsonClose(st)
             ELSE JsonBad(st)
      [] st.mode = "in_key" ->
             IF c = "\""
             THEN [st EXCEPT !.mode = "colon", !.cur = <<>>,
                             !.key = IF st.depth = 1 THEN st.cur ELSE @]
             ELSE IF c = "\\" \/ c \in JsonControl THEN JsonBad(st)
             ELSE [st EXCEPT !.cur = Append(@, c)]
      [] st.mode = "colon" ->
             IF IsWS(c) THEN st
             ELSE IF c = ":" THEN [st EXCEPT !.mode = "value"]
             ELSE JsonBad(st)
      [] st.mode = "value" ->
             IF IsWS(c) THEN st
             ELSE IF c = "\"" THEN [st EXCEPT !.mode = "in_str", !.cur = <<>>]
             ELSE IF c = "{" THEN [st EXCEPT !.mode = "first_key", !.depth = @ + 1]
             ELSE IF c \in JsonStructural THEN JsonBad(st)
             ELSE [st EXCEPT !.mode = "in_lit", !.cur = <<c>>]
      [] st.mode = "in_str" ->
             IF c = "\"" THEN JsonPut(st, PyStr(st.cur))
             ELSE IF c = "\\" THEN [st EXCEPT !.mode = "escape"]
             ELSE IF c \in JsonControl THEN JsonBad(st)
             ELSE [st EXCEPT !.cur = Append(@, c)]
      [] st.mode = "escape" ->
             IF c \in {"\"", "\\", "/"} THEN [st EXCEPT !.mode = "in_str", !.cur = Append(@, c)]
             ELSE IF c = "n" THEN [st EXCEPT !.mode = "in_str", !.cur = Append(@, LF)]
             ELSE IF c = "r" THEN [st EXCEPT !.mode = "in_str", !.cur = Append(@, CR)]
             ELSE IF c = "t" THEN [st EXCEPT !.mode = "in_str", !.cur = Append(@, "\t")]
             ELSE IF c = "u" THEN [st EXCEPT !.mode = "unicode", !.u = <<>>]
             ELSE JsonBad(st)
      [] st.mode = "unicode" ->
             IF c \notin Digits THEN JsonBad(st)
             ELSE IF Len(st.u) < 3 THEN [st EXCEPT !.u = Append(@, c)]
             ELSE [st EXCEPT !.mode = "in_str", !.u = <<>>,
                             !.cur = Append(@, JsonUnicode(Append(st.u, c)))]
      [] st.mode = "in_lit" ->
             IF IsWS(c) \/ c \in {",", "}"}
             THEN IF JsonLiteralOk(st.cur)
                  THEN JsonAfter(JsonPut(st, JsonLiteral(st.cur)), c)
                  ELSE JsonBad(st)
             ELSE IF c \in JsonStructural THEN JsonBad(st)
             ELSE [st EXCEPT !.cur = Append(@, c)]
      [] st.mode = "after" -> JsonAfter(st, c)
      [] st.mode = "end" -> IF IsWS(c) THEN st ELSE JsonBad(st)
      [] OTHER -> st

\* The characters lo..hi of a line through the decoder.
RECURSIVE JsonFeed(_, _, _, _)
JsonFeed(st, line, lo, hi) ==
    IF lo > hi THEN st
    ELSE IF lo = hi THEN JsonChar(st, line[lo])
    ELSE LET left == JsonFeed(st, line, lo, (lo + hi) \div 2)
         IN  IF left = left THEN JsonFeed(left, line, (lo + hi) \div 2 + 1, hi) ELSE left

\* json.loads(line) for a line that holds an object: [ok, items]; ok is FALSE
\* where json.loads raises.
JsonLoads(line) ==
    LET st == JsonFeed(JsonDecoder0, line, 1, Len(line))
    IN  [ok |-> st.mode = "end", items |-> st.items]

\* key in obj
JsonHas(obj, key) == \E i \in 1..Len(obj.items) : obj.items[i].key = <<key>>

\* obj.get(key, ""): the last item with the key counts.
JsonGet(obj, key) ==
    LET at == {i \in 1..Len(obj.items) : obj.items[i].key = <<key>>}
    IN  IF at = {} THEN PyStr(<<>>)
        ELSE obj.items[CHOOSE i \in at : \A j \in at : j <= i].value

\* _count_jsonl on a file: an optional content
_count_jsonl(file) ==
    IF file = None THEN ReaderRaises
    ELSE LET stripped == SelectSeq([k \in 1..Len(FileLines(file[1])) |->
                                       Strip(FileLines(file[1])[k])],
                                   LAMBDA line : line # <<>>)
             objs == [k \in 1..Len(stripped) |-> JsonLoads(stripped[k])]
             recs == SelectSeq(objs, LAMBDA obj : ~JsonHas(obj, "_metadata"))
         IN  IF \E k \in 1..Len(objs) : ~objs[k].ok THEN ReaderRaises
             ELSE ReaderReturns(Len(recs), [k \in 1..Len(recs) |-> JsonGet(recs[k], "name")])

-----------------------------------------------------------------------------
(* verify.py: the reader of the XML file *)

\* The state of the XML parser: the mode, the open tags, the tag and the
\* attributes being read, the text of the record element being read, the
\* root's attributes and the children of the root read so far.
XmlParser0 ==
    [mode |-> "content", stack |-> <<>>, done |-> FALSE, tag |-> "", attrs |-> <<>>,
     aname |-> "", aval |-> <<>>, text |-> <<>>, nested |-> FALSE, cr |-> FALSE,
     etag |-> "", eattrs |-> <<>>, root |-> "", root_attrs |-> <<>>, entries |-> <<>>]

XmlStructural == {"<", ">", "/", "=", "\"", "'", "&", " ", "\t", LF, CR, SOH, XML_DECLARATION}

\* A character reference or entity, resolved.
XmlUnescape(a) ==
    CASE a = "&amp;"  -> "&"
      [] a = "&lt;"   -> "<"
      [] a = "&gt;"   -> ">"
      [] a = "&quot;" -> "\""
      [] a = "&#13;"  -> CR
      [] a = "&#10;"  -> LF
      [] a = "&#09;"  -> "\t"
      [] OTHER        -> a

XmlBad(st) == [st EXCEPT !.mode = "bad"]

\* A start tag is complete.
XmlStartElement(st) ==
    LET depth == Len(st.stack)
        s1 == [st EXCEPT !.mode = "content", !.stack = Append(@, st.tag), !.cr = FALSE]
    IN  IF depth = 0
        THEN IF st.done THEN XmlBad(st)
             ELSE [s1 EXCEPT !.root = st.tag, !.root_attrs = st.attrs]
        ELSE IF depth = 1
        THEN [s1 EXCEPT !.etag = st.tag, !.eattrs = st.attrs, !.text = <<>>, !.nested = FALSE]
        ELSE [s1 EXCEPT !.nested = TRUE]

\* An end tag is complete.
XmlEndElement(st) ==
    LET depth == Len(st.stack)
        s1 == [st EXCEPT !.mode = "content", !.stack = SubSeq(@, 1, depth - 1), !.cr = FALSE]
    IN  IF depth = 1 THEN [s1 EXCEPT !.done = TRUE]
        ELSE IF depth = 2
        THEN [s1 EXCEPT !.entries =
                 Append(@, [tag |-> st.etag, attrs |-> st.eattrs, text |-> st.text])]
        ELSE s1

\* A character of the content of an element; the text of a child of the root
\* is kept up to its first child, with "\r\n" and "\r" read as "\n".
XmlText(st, c) ==
    LET keep == Len(st.stack) = 2 /\ ~st.nested
        Add(a) == IF keep THEN [st EXCEPT !.text = Append(@, a), !.cr = FALSE]
                  ELSE [st EXCEPT !.cr = FALSE]
    IN  IF c \in {SOH, "&", XML_DECLARATION} THEN XmlBad(st)
        ELSE IF c = CR
        THEN IF keep THEN [st EXCEPT !.text = Append(@, LF), !.cr = TRUE]
             ELSE [st EXCEPT !.cr = TRUE]
        ELSE IF c = LF /\ st.cr THEN [st EXCEPT !.cr = FALSE]
        ELSE Add(XmlUnescape(c))

\* One character through the parser.
XmlChar(st, c) ==
    CASE st.mode = "content" ->
             IF c = "<" THEN [st EXCEPT !.mode = "tag_open"]
             ELSE IF st.stack = <<>>
             THEN IF IsWS(c) THEN st ELSE XmlBad(st)
             ELSE XmlText(st, c)
      [] st.mode = "tag_open" ->
             IF c = "/" THEN [st EXCEPT !.mode = "close_name"]
             ELSE IF c \in XmlStructural THEN XmlBad(st)
             ELSE [st EXCEPT !.mode = "in_tag", !.tag = c, !.attrs = <<>>]
      [] st.mode = "in_tag" ->
             IF IsWS(c) THEN st
             ELSE IF c = ">" THEN XmlStartElement(st)
             ELSE IF c = "/" THEN [st EXCEPT !.mode = "empty_tag"]
             ELSE IF c \in XmlStructural THEN XmlBad(st)
             ELSE [st EXCEPT !.mode = "attr_eq", !.aname = c]
      [] st.mode = "empty_tag" ->
             IF c = ">" THEN XmlEndElement(XmlStartElement(st)) ELSE XmlBad(st)
      [] st.mode = "attr_eq" ->
             IF c = "=" THEN [st EXCEPT !.mode = "attr_quote"] ELSE XmlBad(st)
      [] st.mode = "attr_quote" ->
             IF c = "\"" THEN [st EXCEPT !.mode = "attr_value", !.aval = <<>>] ELSE XmlBad(st)
      [] st.mode = "attr_value" ->
             IF c = "\""
             THEN [st EXCEPT !.mode = "in_tag",
                             !.attrs = Append(@, [name |-> st.aname, value |-> st.aval])]
             ELSE IF c \in {"<", "&", SOH, XML_DECLARATION} THEN XmlBad(st)
             ELSE IF c \in {LF, CR, "\t"} THEN [st EXCEPT !.aval = Append(@, " ")]
             ELSE [st EXCEPT !.aval = Append(@, XmlUnescape(c))]
      [] st.mode = "close_name" ->
             IF st.stack # <<>> /\ c = st.stack[Len(st.stack)]
             THEN [st EXCEPT !.mode = "close_end"]
             ELSE XmlBad(st)
      [] st.mode = "close_end" ->
             IF IsWS(c) THEN st
             ELSE IF c = ">" THEN XmlEndElement(st)
             ELSE XmlBad(st)
      [] OTHER -> st

\* The characters lo..hi of a document through the parser.
RECURSIVE XmlFeed(_, _, _, _)
XmlFeed(st, doc, lo, hi) ==
    IF lo > hi THEN st
    ELSE IF lo = hi THEN XmlChar(st, doc[lo])
    ELSE LET left == XmlFeed(st, doc, lo, (lo + hi) \div 2)
         IN  IF left = left THEN XmlFeed(left, doc, (lo + hi) \div 2 + 1, hi) ELSE left

\* ET.parse(path).getroot(): [ok, root, root_attrs, entries]; ok is FALSE
\* where ET.parse raises ParseError.
XmlParse(doc) ==
    LET body == IF doc # <<>> /\ doc[1] = XML_DECLARATION THEN Tail(doc) ELSE doc
        st == XmlFeed(XmlParser0, body, 1, Len(body))
    IN  [ok |-> st.mode = "content" /\ st.stack = <<>> /\ st.done,
         root |-> st.root, root_attrs |-> st.root_attrs, entries |-> st.entries]

\* _count_xml on a file: an optional content
_count_xml(file) ==
    IF file = None THEN ReaderRaises
    ELSE LET tree == XmlParse(file[1])
             entries == SelectSeq(tree.entries, LAMBDA e : e.tag = "scheinfirma")
         IN  IF ~tree.ok THEN ReaderRaises
             ELSE ReaderReturns(Len(entries), [k \in 1..Len(entries) |-> PyStr(entries[k].text)])

-----------------------------------------------------------------------------
(* schema.py, as the validators of verify_schemas apply it *)

\* What write_json_schema and write_xsd write, each one atom.
JSON_SCHEMA == "JSON_SCHEMA"
XSD_CONTENT == "XSD_CONTENT"

\* JSON_SCHEMA on one object: the required keys, no other key than the nine,
\* the types, minLength and the patterns; "format" asserts nothing.
JsonSchemaValid(obj) ==
    LET Has(k) == JsonHas(obj, k)
        V(k) == JsonGet(obj, k)
        Fields == {_FIELD_ORDER[i] : i \in 1..Len(_FIELD_ORDER)}
    IN  /\ \A k \in {"name", "anschrift", "veroeffentlicht", "rechtskraeftig"} : Has(k)
        /\ \A i \in 1..Len(obj.items) : \E k \in Fields : obj.items[i].key = <<k>>
        /\ \A k \in {"name", "anschrift"} : V(k).t = "str" /\ Len(V(k).v) >= 1
        /\ \A k \in {"veroeffentlicht", "rechtskraeftig"} : V(k).t = "str"
        /\ \A k \in {"seit", "geburtsdatum", "fbnr", "uid", "kennziffer"} :
              Has(k) => V(k).t \in {"str", "None"}
        /\ (Has("fbnr") /\ V("fbnr").t = "str") => _RE_FIRMENBUCH(V("fbnr").v)
        /\ (Has("uid") /\ V("uid").t = "str") => _RE_UID(V("uid").v)

\* xs:date: YYYY-MM-DD of a day that exists
IsXsDate(v) ==
    LET s == Strip(v) IN
    /\ Len(s) = 10
    /\ \A i \in {1, 2, 3, 4, 6, 7, 9, 10} : s[i] \in Digits
    /\ s[5] = "-" /\ s[8] = "-"
    /\ IntOf(SubSeq(s, 1, 4)) >= 1
    /\ IntOf(SubSeq(s, 6, 7)) \in 1..12
    /\ IntOf(SubSeq(s, 9, 10)) \in 1..DaysInMonth(IntOf(SubSeq(s, 1, 4)), IntOf(SubSeq(s, 6, 7)))

\* xs:time: HH:MM:SS
IsXsTime(v) ==
    LET s == Strip(v) IN
    /\ IsStandTime(s)
    /\ IntOf(SubSeq(s, 1, 2)) <= 23 /\ IntOf(SubSeq(s, 4, 5)) <= 59 /\ IntOf(SubSeq(s, 7, 8)) <= 59

\* xs:positiveInteger
IsXsPositiveInteger(v) == LET s == Strip(v) IN s # <<>> /\ AllDigits(s) /\ IntOf(s) >= 1

\* The value of an attribute of an element, as a str | None.
XmlAttrValue(attrs, name) ==
    LET at == {i \in 1..Len(attrs) : attrs[i].name = name}
    IN  IF at = {} THEN None ELSE Some(attrs[CHOOSE i \in at : TRUE].value)

\* XSD_CONTENT on a document: the violations found, by name.
XsdErrors(tree) ==
    LET RootAttr(n) == XmlAttrValue(tree.root_attrs, n)
        Want(bad, what) == IF bad THEN <<what>> ELSE <<>>
        Entry(e) ==
            LET A(n) == XmlAttrValue(e.attrs, n) IN
            Want(e.tag # "scheinfirma", "element")
            \o Want(A("anschrift") = None, "anschrift")
            \o Want(A("veroeffentlicht") = None \/ ~IsXsDate(A("veroeffentlicht")[1]),
                    "veroeffentlicht")
            \o Want(A("rechtskraeftig") = None \/ ~IsXsDate(A("rechtskraeftig")[1]),
                    "rechtskraeftig")
            \o Want(A("seit") # None /\ ~IsXsDate(A("seit")[1]), "seit")
            \o Want(A("geburtsdatum") # None /\ ~IsXsDate(A("geburtsdatum")[1]), "geburtsdatum")
            \o Want(\E i \in 1..Len(e.attrs) : e.attrs[i].name \notin
                        {_FIELD_ORDER[k] : k \in 2..Len(_FIELD_ORDER)}, "attribute")
    IN  IF tree.root # "scheinfirmen" THEN <<"root">>
        ELSE Want(RootAttr("stand") = None \/ ~IsXsDate(RootAttr("stand")[1]), "stand")
             \o Want(RootAttr("zeit") = None \/ ~IsXsTime(RootAttr("zeit")[1]), "zeit")
             \o Want(RootAttr("quelle") = None, "quelle")
             \o Want(RootAttr("anzahl") = None \/ ~IsXsPositiveInteger(RootAttr("anzahl")[1]),
                     "anzahl")
             \o Want(tree.entries = <<>>, "scheinfirma")
             \o Concat([i \in 1..Len(tree.entries) |-> Entry(tree.entries[i])])

-----------------------------------------------------------------------------
(* verify.py: verify_outputs and verify_schemas *)

\* The error messages, by what they carry.
\* (a count error that gives the count found as the expected one)
CountMismatch_swapped(fmt, expected, found) ==
    [kind |-> "count", what |-> fmt, expected |-> found, found |-> expected, names |-> <<>>]

CountMismatch(fmt, expected, found) ==
    [kind |-> "count", what |-> fmt, expected |-> expected, found |-> found, names |-> <<>>]
NameMismatch(label, names) ==
    [kind |-> "name", what |-> label, expected |-> 0, found |-> 0, names |-> names]
SchemaError(kind, what) ==
    [kind |-> kind, what |-> what, expected |-> 0, found |-> 0, names |-> <<>>]

\* verify_schemas: the XML part runs when lxml can be imported, the JSONL part
\* when jsonschema can; the JSONL part stops at the first line that fails.
verify_schemas(jsonl, xml, json_schema, xsd, e) ==
    LET tree == XmlParse(xml[1])
        xml_errors ==
            IF ~e.lxml THEN <<>>
            ELSE IF xsd # Some(<<XSD_CONTENT>>) \/ xml = None \/ ~tree.ok
            THEN <<SchemaError("xml_run", "")>>
            ELSE [i \in 1..Len(XsdErrors(tree)) |-> SchemaError("xsd", XsdErrors(tree)[i])]
        objs == [k \in 1..Len(FileLines(jsonl[1])) |-> JsonLoads(FileLines(jsonl[1])[k])]
        jsonl_errors ==
            IF ~e.jsonschema THEN <<>>
            ELSE IF json_schema # Some(<<JSON_SCHEMA>>) \/ jsonl = None
            THEN <<SchemaError("jsonl", "")>>
            ELSE IF \E k \in 1..Len(objs) :
                       ~objs[k].ok \/ (~JsonHas(objs[k], "$schema") /\ ~JsonSchemaValid(objs[k]))
            THEN <<SchemaError("jsonl", "")>>
            ELSE <<>>
    IN  xml_errors \o jsonl_errors

\* What verify_outputs gives: it raises what a reader raises, or returns errors.
VerifyRaises == [raised |-> TRUE, errors |-> <<>>]
VerifyReturns(errors) == [raised |-> FALSE, errors |-> errors]

\* (a spot-check that also runs when a reader returned no name: the name
\* missing counts as the empty str)
SpotCheck_unguarded(c, j, x) ==
    LET Pick(names, idx) ==
            IF names = <<>> THEN PyStr(<<>>)
            ELSE IF idx = 1 THEN names[1] ELSE names[Len(names)]
        Check(idx, label) ==
            IF Cardinality({Pick(c.names, idx), Pick(j.names, idx), Pick(x.names, idx)}) > 1
            THEN <<NameMismatch(label, <<Pick(c.names, idx), Pick(j.names, idx),
                                         Pick(x.names, idx)>>)>>
            ELSE <<>>
    IN  Check(1, "First") \o Check(2, "Last")

\* (a spot-check of the first names only)
SpotCheck_firstOnly(c, j, x) ==
    IF c.names # <<>> /\ j.names # <<>> /\ x.names # <<>>
       /\ Cardinality({c.names[1], j.names[1], x.names[1]}) > 1
    THEN <<NameMismatch("First", <<c.names[1], j.names[1], x.names[1]>>)>>
    ELSE <<>>

\* The spot-check of verify_outputs on what the three readers returned.
SpotCheck(c, j, x) ==
    LET Pick(names, idx) == IF idx = 1 THEN names[1] ELSE names[Len(names)]
        Check(idx, label) ==
            IF Cardinality({Pick(c.names, idx), Pick(j.names, idx), Pick(x.names, idx)}) > 1
            THEN <<NameMismatch(label, <<Pick(c.names, idx), Pick(j.names, idx),
                                         Pick(x.names, idx)>>)>>
            ELSE <<>>
    IN  IF c.names # <<>> /\ j.names # <<>> /\ x.names # <<>>
        THEN Check(1, "First") \o Check(2, "Last")
        ELSE <<>>

\* verify_outputs; fs holds the files, schemas tells whether both schema paths
\* are given, e which validators can be imported.
verify_outputs(fs, expected_count, schemas, e) ==
    LET c == _count_csv(fs.csv)
        j == _count_jsonl(fs.jsonl)
        x == _count_xml(fs.xml)
        Count(fmt, r) ==
            IF r.count # expected_count THEN <<CountMismatch(fmt, expected_count, r.count)>>
            ELSE <<>>
    IN  IF c.raised \/ j.raised \/ x.raised THEN VerifyRaises
        ELSE VerifyReturns(
                 Count("CSV", c) \o Count("JSONL", j) \o Count("XML", x)
                 \o SpotCheck(c, j, x)
                 \o (IF schemas
                     THEN verify_schemas(fs.jsonl, fs.xml, fs.json_schema, fs.xsd, e)
                     ELSE <<>>))

-----------------------------------------------------------------------------
(* download.py: download_csv *)

\* The locals of download_csv before the loop, for given arguments; slept is
\* the list of the waits handed to time.sleep and tried the list of what the
\* attempts gave, both in order.
CallDownload(retries, delay) ==
    [retries |-> retries, delay |-> delay, attempt |-> 0, last_error |-> None,
     slept |-> <<>>, tried |-> <<>>]

\* download_csv is not called.
NoDownload == CallDownload(0, 0)

\* (a wait that grows by delay with every attempt)
Wait_linear(delay, attempt) == delay * attempt

\* Line 27: the wait before the attempt numbered `attempt` (0-based).
Wait(delay, attempt) == delay * (2 ^ (attempt - 1))

\* Line 33: the exceptions an attempt is allowed to fail with.
Caught == {"URLError", "OSError"}

\* What lines 30-32 can give: the bytes of the response, URLError (HTTPError
\* is one), OSError (a timeout is one), or an exception of http.client that
\* is neither (IncompleteRead from resp.read(), BadStatusLine from urlopen).
Bodies == {<<"A">>, <<"B">>}
Response(kind, body) == [kind |-> kind, body |-> body]
UrlopenOutcomes ==
    {Response("bytes", b) : b \in Bodies}
        \cup {Response(k, <<>>) : k \in Caught \cup {"HTTPException"}}
-----------------------------------------------------------------------------
(* Inputs *)

D_ok1 == <<"0", "1", ".", "0", "1", ".", "2", "0", "2", "4">>
D_ok2 == <<"2", "9", ".", "0", "2", ".", "2", "0", "2", "4">>
D_short == <<"1", ".", "2", ".", "2", "0", "2", "4">>
D_day32 == <<"3", "2", ".", "0", "1", ".", "2", "0", "2", "4">>
D_month13 == <<"0", "1", ".", "1", "3", ".", "2", "0", "2", "4">>
D_apr31 == <<"3", "1", ".", "0", "4", ".", "2", "0", "2", "4">>
D_feb29 == <<"2", "9", ".", "0", "2", ".", "2", "0", "2", "3">>
D_iso == <<"2", "0", "2", "4", "-", "0", "1", "-", "0", "1">>
T_ok == <<"0", "9", ":", "5", "1", ":", "3", "2">>

\* A data line from its 9 fields; trail adds the tilde the BMF puts after an
\* empty last field.
Row(name, d3, d4, d5, d6, kz, trail) ==
    Join(<<name, <<"W">>, d3, d4, d5, d6, <<>>, <<>>, kz>>, TILDE)
        \o (IF trail THEN <<TILDE>> ELSE <<>>)

RowA == Row(<<"A">>, D_ok1, D_ok2, <<>>, <<>>, <<>>, TRUE)
RowB == Row(<<" ", "B">>, D_short, D_ok1, D_ok2 \o <<" ">>, <<" ">>, <<"&quot;", "R", "&quot;">>, FALSE)
Row8 == Join(<<<<"A">>, <<"W">>, D_ok1, D_ok1, <<>>, <<>>, <<>>, <<>>>>, TILDE)
Row10 == Row(<<"A">>, D_ok1, D_ok1, <<>>, <<>>, <<"R">>, FALSE) \o <<TILDE, "x">>
Row11 == Row(<<"A">>, D_ok1, D_ok1, <<>>, <<>>, <<>>, TRUE) \o <<TILDE>>
RowDay32 == Row(<<"A">>, D_day32, D_ok1, <<>>, <<>>, <<>>, TRUE)
RowFeb29 == Row(<<"A">>, D_feb29, D_ok1, <<>>, <<>>, <<>>, TRUE)
RowNoDate == Row(<<"A">>, D_ok1, <<" ">>, <<>>, <<>>, <<>>, TRUE)
RowIso == Row(<<"A">>, D_ok1, D_iso, <<>>, <<>>, <<>>, TRUE)
RowApr31 == Row(<<"A">>, D_ok1, D_ok1, D_apr31, <<>>, <<>>, TRUE)
RowMonth13 == Row(<<"A">>, D_ok1, D_ok1, <<>>, D_month13, <<>>, TRUE)
RowKz == Row(<<"A">>, D_ok1, D_ok2, <<>>, <<>>, <<"R", "1">>, FALSE)
BlankLine == <<" ">>
StandLine == StandPrefix \o <<" ", " ">> \o <<"1", "0", ".", "0", "2", ".", "2", "0", "2", "6">> \o <<" ">> \o T_ok
StandBadDate == StandPrefix \o <<" ">> \o <<"3", "1", ".", "0", "2", ".", "2", "0", "2", "6">> \o <<" ">> \o T_ok
StandLoose == StandPrefix \o <<" ">> \o D_short \o <<" ">> \o T_ok

LinePool ==
    {RowA, RowB, Row8, Row10, Row11, RowDay32, RowFeb29, RowNoDate, RowIso, RowApr31,
     RowMonth13,
     BlankLine, StandLine, StandBadDate, StandLoose}

H_ok == Join(EXPECTED_HEADERS, TILDE)
H_spaced == Join([i \in 1..9 |-> <<" ">> \o EXPECTED_HEADERS[i] \o <<" ", "\t">>], TILDE)
H_misspelled == Join([EXPECTED_HEADERS EXCEPT ![1] = <<"Nme">>], TILDE)
H_swapped == Join([EXPECTED_HEADERS EXCEPT ![1] = <<"Anschrift">>, ![2] = <<"Name">>], TILDE)
H_short == Join(SubSeq(EXPECTED_HEADERS, 1, 8), TILDE)
H_trailing == H_ok \o <<TILDE>>

HeaderPool == {H_ok, H_spaced, H_misspelled, H_swapped, H_short, H_trailing}

\* The line terminators the BMF file and its copies use, by position.
Terminator(i) == <<<<CR, LF>>, <<LF>>, <<CR>>>>[(i % 3) + 1]

RECURSIVE JoinLines(_, _)
JoinLines(ls, i) ==
    IF ls = <<>> THEN <<>> ELSE Head(ls) \o Terminator(i) \o JoinLines(Tail(ls), i + 1)

BodiesUpTo(n) == UNION {[1..k -> LinePool] : k \in 0..n}

\* The inputs: a header and some lines, each with its terminator.  The header
\* check reads nothing after line 1, so a header other than the canonical one
\* comes with at most MaxLinesOther lines.
Inputs ==
    {JoinLines(<<H_ok>> \o b, 0) : b \in BodiesUpTo(MaxLines)}
        \cup {JoinLines(<<h>> \o b, 0) : h \in HeaderPool, b \in BodiesUpTo(MaxLinesOther)}

\* The inputs of the driver: fewer kinds of line, so that every option of the
\* command line is tried on each.
DriverLinePool == {RowA, RowKz, Row8, RowDay32, BlankLine, StandLine}

DriverInputs ==
    {JoinLines(<<H_ok>> \o b, 0) : b \in UNION {[1..k -> DriverLinePool] : k \in 0..MaxLines}}
        \cup {JoinLines(<<H_misspelled, RowA, StandLine>>, 0)}

\* The command lines of the driver and the interpreters it runs on: one
\* without the optional packages lxml and jsonschema, one with both.
ArgsPool == [min_rows : 0..MaxMinRows, skip_verify : BOOLEAN]
EnvPool == {[lxml |-> FALSE, jsonschema |-> FALSE], [lxml |-> TRUE, jsonschema |-> TRUE]}

\* The names of the batches that are written and read back, as the BMF file
\* holds them.
NamePool ==
    {<<"A">>, <<"B">>, <<>>, <<"#", "A">>, <<"A", ",", "b">>, <<"A", "&quot;", "b">>,
     <<"A", "&amp;", "b">>, <<"A", "&#10;", "b">>, <<"A", "&#13;", "b">>, <<"A", SOH>>}

\* An input that parses, with one row for each name.
RoundTripInput(names) ==
    JoinLines(<<H_ok>>
                  \o [i \in 1..Len(names) |-> Row(names[i], D_ok1, D_ok2, <<>>, <<>>, <<>>, TRUE)]
                  \o <<StandLine>>, 0)

\* Data lines with optional fields: every one present; some present, one of
\* them with a comma and a quote in it.
RowFull ==
    Join(<<<<"C">>, <<"W">>, D_ok1, D_ok2, D_ok1, D_ok2,
           <<"1", "2", "3", "4", "5", "a">>,
           <<"A", "T", "U", "1", "2", "3", "4", "5", "6", "7", "8">>,
           <<"R", "1", "2", "3", "A", "4", "5", "6">>>>, TILDE)
RowMixed ==
    Join(<<<<"D">>, <<"W">>, D_ok1, D_ok2, <<>>, D_ok2, <<"1", ",", "&quot;">>, <<>>, <<>>>>,
         TILDE)

FieldInputs ==
    {JoinLines(<<H_ok>> \o b \o <<StandLine>>, 0) :
         b \in UNION {[1..k -> {RowFull, RowMixed}] : k \in 0..MaxRecords}}

\* The batches of names: the first and the last name, which verify_outputs
\* compares, range over the whole pool; a name between them is one that every
\* reader counts or one that _count_csv drops.
RoundTripNames ==
    UNION {{names \in [1..k -> NamePool] :
                \A i \in 2..(k - 1) : names[i] \in {<<"A">>, <<"#", "A">>}} :
           k \in 0..MaxRecords}

RoundTripInputs ==
    {RoundTripInput(names) : names \in RoundTripNames} \cup FieldInputs

\* The reports a ValidationResult is built from: up to MaxFindings errors and
\* up to MaxFindings warnings.
FindingPool ==
    {ValidationError(0, "row_count", Some(<<"0">>)),
     ValidationError(1, "name", Some(<<>>)),
     ValidationError(1, "kennziffer_ur", Some(<<"R", "1">>))}

FindingLists == UNION {[1..k -> FindingPool] : k \in 0..MaxFindings}

ReportPool == [errors : FindingLists, warnings : FindingLists]

\* The artifacts verify_outputs is given: files the serializers wrote for
\* batches of up to two records named A or B, each format from a batch of its
\* own, and two files that were damaged afterwards: a JSONL file with a line
\* that is not JSON and an XML file cut off before its end.
ArtifactNames ==
    {<<>>, <<<<"A">>>>, <<<<"B">>>>, <<<<"A">>, <<"B">>>>, <<<<"A">>, <<"A">>>>,
     <<<<"B">>, <<"B">>>>}

ArtifactBatch(names) ==
    ParseResult([i \in 1..Len(names) |->
                    MakeRecord(<<names[i], <<"W">>, D_ok1, D_ok2, <<>>, <<>>, <<>>, <<>>, <<>>>>)],
                <<"2", "0", "2", "6", "-", "0", "2", "-", "1", "0">>, T_ok)

BadJsonl == write_jsonl(ArtifactBatch(<<<<"A">>, <<"B">>>>)) \o <<"{", "x", LF>>
BadXml ==
    SubSeq(write_xml(ArtifactBatch(<<<<"A">>, <<"B">>>>)), 1,
           Len(write_xml(ArtifactBatch(<<<<"A">>, <<"B">>>>))) - 4)

ArtifactPool ==
    [csv : {Some(write_csv(ArtifactBatch(n))) : n \in ArtifactNames},
     jsonl : {Some(write_jsonl(ArtifactBatch(n))) : n \in ArtifactNames} \cup {Some(BadJsonl)},
     xml : {Some(write_xml(ArtifactBatch(n))) : n \in ArtifactNames} \cup {Some(BadXml)},
     json_schema : {Some(<<JSON_SCHEMA>>)},
     xsd : {Some(<<XSD_CONTENT>>)}]

\* The other arguments of verify_outputs: the expected count, and whether the
\* two schema paths are given.
VerifyArgsPool == [expected_count : 0..MaxExpected, schemas : BOOLEAN]


\* The register reference codes of the BMF file: a letter, blanks and escaped
\* quotes.
KennzifferPool == UNION {[1..k -> {"&quot;", "R", " "}] : k \in 0..MaxKennziffer}

\* An input of one row that holds the code.
KennzifferInput(kz) ==
    JoinLines(<<H_ok, Row(<<"A">>, D_ok1, D_ok2, <<>>, <<>>, kz, FALSE), StandLine>>, 0)

\* Dates as the BMF file holds them: of this century, without leading zeros,
\* and of a year before 1000.
D_year999 == <<"0", "1", ".", "0", "1", ".", "0", "9", "9", "9">>
DatePool == {D_ok1, D_short, D_year999}
StandYear999 == StandPrefix \o <<" ">> \o D_year999 \o <<" ">> \o T_ok

\* Inputs of one row with dates of the pool.
DateInputs ==
    {JoinLines(<<H_ok, Row(<<"A">>, d3, d4, d5, <<>>, <<>>, TRUE), st>>, 0) :
         d3 \in DatePool, d4 \in DatePool, d5 \in DatePool \cup {<<>>},
         st \in {StandLine, StandYear999}}

\* The JSONL files verify_schemas is given, line by line. A first line: the
\* metadata line write_jsonl writes, a line holding the key "_metadata" alone
\* (as the tests write it), a line holding the key "$schema" alone, or a blank
\* line. A record line: one that write_jsonl wrote for a record, or one that
\* lacks the required fields.
MetaLine == JsonlMetadata(ArtifactBatch(<<>>))
MetaOnlyLine ==
    JsonObject(<<[key |-> "_metadata",
                  text |-> JsonObject(<<[key |-> "stand",
                                         text |-> JsonString(<<"2024-01-01">>)]>>)]>>)
SchemaOnlyLine == JsonObject(<<[key |-> "$schema", text |-> JsonString(<<JSON_SCHEMA_URL>>)]>>)
BlankLine_jsonl == <<>>
GoodLine == JsonlRecord(ArtifactBatch(<<<<"A">>>>).records[1])
BadLine == JsonObject(<<[key |-> "name", text |-> JsonString(<<"Test">>)]>>)

FirstLinePool == {MetaLine, MetaOnlyLine, SchemaOnlyLine, BlankLine_jsonl}
RecordLinePool == {GoodLine, BadLine}

JsonlFile(file_lines) == Concat([i \in 1..Len(file_lines) |-> file_lines[i] \o <<LF>>])

JsonlFilePool ==
    {JsonlFile(head \o body) :
         head \in {<<>>} \cup {<<l>> : l \in FirstLinePool},
         body \in UNION {[1..k -> RecordLinePool] : k \in 0..MaxRecords}}

\* The XML files: one that write_xml wrote for a batch of one record, and the
\* one it writes for the empty batch.
SchemaArtifactPool ==
    [csv : {None},
     jsonl : {Some(f) : f \in JsonlFilePool},
     xml : {Some(write_xml(ArtifactBatch(n))) : n \in {<<>>, <<<<"A">>>>}},
     json_schema : {Some(<<JSON_SCHEMA>>)},
     xsd : {Some(<<XSD_CONTENT>>)}]
-----------------------------------------------------------------------------
(* parse_bmf_csv, step by step *)

\* The output directory before anything is written.
NoFiles == [csv |-> None, jsonl |-> None, xml |-> None, json_schema |-> None, xsd |-> None]

\* parse_bmf_csv is called; nothing else has happened.
CallParse ==
    /\ p_state = "start"
    /\ lines = <<>>
    /\ line_no = 0
    /\ records = <<>>
    /\ stand_datum = None
    /\ stand_zeit = None
    /\ p_error = NoError
    /\ result = None
    /\ pc = "parse"
    /\ validation = None
    /\ files = NoFiles
    /\ verify_errors = None
    /\ raised = None
    /\ exit_status = None
    /\ calls = <<"parse_bmf_csv">>
    /\ download = NoDownload

\* parse_bmf_csv called on its own.
InitParse ==
    /\ raw_data \in Inputs
    /\ args = [min_rows |-> 0, skip_verify |-> FALSE]
    /\ env = [lxml |-> FALSE, jsonschema |-> FALSE]
    /\ CallParse

\* Lines 93-115: decode, normalize, split, check the header.
ParseHeader ==
    /\ p_state = "start"
    /\ lines' = InputLines(raw_data)
    /\ IF lines' = <<>>
       THEN p_state' = "raised" /\ p_error' = EmptyInputError
       ELSE IF ~HeaderOk(lines'[1])
       THEN p_state' = "raised" /\ p_error' = HeaderError
       ELSE p_state' = "loop" /\ p_error' = NoError
    /\ line_no' = 2
    /\ UNCHANGED <<raw_data, records, stand_datum, stand_zeit, result>>
    /\ UNCHANGED dvars
    /\ UNCHANGED download

\* Lines 117-158: one pass of the loop.
ParseRow ==
    /\ p_state = "loop"
    /\ line_no <= Len(lines)
    /\ \E st \in {ParseLine([records |-> records, stand_datum |-> stand_datum,
                              stand_zeit |-> stand_zeit, error |-> NoError],
                             lines[line_no], line_no)} :
           /\ records' = st.records
           /\ stand_datum' = st.stand_datum
           /\ stand_zeit' = st.stand_zeit
           /\ p_error' = st.error
           /\ p_state' = IF st.error # NoError THEN "raised" ELSE "loop"
           /\ line_no' = IF st.error # NoError THEN line_no ELSE line_no + 1
    /\ UNCHANGED <<raw_data, lines, result>>
    /\ UNCHANGED dvars
    /\ UNCHANGED download

\* Lines 160-168: after the loop.
ParseReturn ==
    /\ p_state = "loop"
    /\ line_no > Len(lines)
    /\ IF StandMissing(stand_datum, stand_zeit)
       THEN p_state' = "raised" /\ p_error' = NoStandError /\ result' = None
       ELSE /\ p_state' = "returned" /\ p_error' = NoError
            /\ result' = Some(ParseResult(records, stand_datum[1], stand_zeit[1]))
    /\ UNCHANGED <<raw_data, lines, line_no, records, stand_datum, stand_zeit>>
    /\ UNCHANGED dvars
    /\ UNCHANGED download

NextParse == ParseHeader \/ ParseRow \/ ParseReturn

SpecParse == InitParse /\ [][NextParse]_vars


\* parse_bmf_csv called on a file of one row.
InitOneRow ==
    /\ raw_data \in {KennzifferInput(kz) : kz \in KennzifferPool} \cup DateInputs
    /\ args = [min_rows |-> 0, skip_verify |-> FALSE]
    /\ env = [lxml |-> FALSE, jsonschema |-> FALSE]
    /\ CallParse

SpecOneRow == InitOneRow /\ [][NextParse]_vars

-----------------------------------------------------------------------------
(* cli.py: main, from the call of parse_bmf_csv on *)

\* main has read its input and calls parse_bmf_csv.
Init ==
    /\ raw_data \in DriverInputs
    /\ args \in ArgsPool
    /\ env \in EnvPool
    /\ CallParse

\* sys.exit(status), and the end of main
Exit(status) == exit_status' = Some(status) /\ pc' = "exit"

\* Lines 107-111: parse_bmf_csv raised ValueError.
MainParseError ==
    /\ pc = "parse" /\ p_state = "raised"
    /\ Exit(1)
    /\ UNCHANGED <<args, env, validation, files, verify_errors, raised, calls>>
    /\ UNCHANGED pvars
    /\ UNCHANGED download

\* Lines 119-134: validate_records is called; an exception it raises is caught
\* nowhere and ends the process with status 1.
MainValidate ==
    /\ pc = "parse" /\ p_state = "returned"
    /\ calls' = Append(calls, "validate_records")
    /\ \E v \in {validate_records(result[1], args.min_rows)} :
           IF v.raised # None
           THEN raised' = v.raised /\ validation' = None /\ Exit(1)
           ELSE /\ raised' = None
                /\ validation' = Some([errors |-> v.errors, warnings |-> v.warnings])
                /\ IF ~ok(v) THEN Exit(1)
                   ELSE pc' = "write_csv" /\ exit_status' = None
    /\ UNCHANGED <<args, env, files, verify_errors>>
    /\ UNCHANGED pvars
    /\ UNCHANGED download

\* Line 145
MainWriteCsv ==
    /\ pc = "write_csv"
    /\ calls' = Append(calls, "write_csv")
    /\ files' = [files EXCEPT !.csv = Some(write_csv(result[1]))]
    /\ pc' = "write_jsonl"
    /\ UNCHANGED <<args, env, validation, verify_errors, raised, exit_status>>
    /\ UNCHANGED pvars
    /\ UNCHANGED download

\* Line 148
MainWriteJsonl ==
    /\ pc = "write_jsonl"
    /\ calls' = Append(calls, "write_jsonl")
    /\ files' = [files EXCEPT !.jsonl = Some(write_jsonl(result[1]))]
    /\ pc' = "write_xml"
    /\ UNCHANGED <<args, env, validation, verify_errors, raised, exit_status>>
    /\ UNCHANGED pvars
    /\ UNCHANGED download

\* Line 151
MainWriteXml ==
    /\ pc = "write_xml"
    /\ calls' = Append(calls, "write_xml")
    /\ files' = [files EXCEPT !.xml = Some(write_xml(result[1]))]
    /\ pc' = "write_schemas"
    /\ UNCHANGED <<args, env, validation, verify_errors, raised, exit_status>>
    /\ UNCHANGED pvars
    /\ UNCHANGED download

\* (a main that writes the JSON Schema and leaves out the XSD)
MainWriteSchemas_jsonOnly ==
    /\ pc = "write_schemas"
    /\ calls' = calls \o <<"write_json_schema", "write_xsd">>
    /\ files' = [files EXCEPT !.json_schema = Some(<<JSON_SCHEMA>>)]
    /\ pc' = "verify"
    /\ UNCHANGED <<args, env, validation, verify_errors, raised, exit_status>>
    /\ UNCHANGED pvars
    /\ UNCHANGED download

\* Lines 154-158
MainWriteSchemas ==
    /\ pc = "write_schemas"
    /\ calls' = calls \o <<"write_json_schema", "write_xsd">>
    /\ files' = [files EXCEPT !.json_schema = Some(<<JSON_SCHEMA>>), !.xsd = Some(<<XSD_CONTENT>>)]
    /\ pc' = "verify"
    /\ UNCHANGED <<args, env, validation, verify_errors, raised, exit_status>>
    /\ UNCHANGED pvars
    /\ UNCHANGED download

\* Lines 160-190: unless --skip-verify is given verify_outputs is called, with
\* both schema paths; then main ends.
MainVerify ==
    /\ pc = "verify"
    /\ IF args.skip_verify
       THEN /\ Exit(0)
            /\ UNCHANGED <<verify_errors, raised, calls>>
       ELSE /\ calls' = Append(calls, "verify_outputs")
            /\ \E r \in {verify_outputs(files, result[1].raw_row_count, TRUE, env)} :
                   IF r.raised
                   THEN raised' = Some("ParseError") /\ verify_errors' = None /\ Exit(1)
                   ELSE /\ raised' = None
                        /\ verify_errors' = Some(r.errors)
                        /\ Exit(IF r.errors # <<>> THEN 1 ELSE 0)
    /\ UNCHANGED <<args, env, validation, files>>
    /\ UNCHANGED pvars
    /\ UNCHANGED download

Next ==
    \/ ParseHeader
    \/ ParseRow
    \/ ParseReturn
    \/ MainParseError
    \/ MainValidate
    \/ MainWriteCsv
    \/ MainWriteJsonl
    \/ MainWriteXml
    \/ MainWriteSchemas
    \/ MainVerify

Spec == Init /\ [][Next]_vars

-----------------------------------------------------------------------------
(* The serializers and the verifier called on what the parser returned *)

InitRoundTrip ==
    /\ raw_data \in RoundTripInputs
    /\ args = [min_rows |-> 0, skip_verify |-> FALSE]
    /\ env = [lxml |-> FALSE, jsonschema |-> FALSE]
    /\ CallParse

\* write_csv, write_jsonl and write_xml, each on the batch.
WriteOutputs ==
    /\ pc = "parse" /\ p_state = "returned"
    /\ calls' = calls \o <<"write_csv", "write_jsonl", "write_xml">>
    /\ files' = [files EXCEPT !.csv = Some(write_csv(result[1])),
                              !.jsonl = Some(write_jsonl(result[1])),
                              !.xml = Some(write_xml(result[1]))]
    /\ pc' = "written"
    /\ UNCHANGED <<args, env, validation, verify_errors, raised, exit_status>>
    /\ UNCHANGED pvars
    /\ UNCHANGED download

\* verify_outputs(csv_path, jsonl_path, xml_path, n), without schemas.
VerifyOutputs ==
    /\ pc = "written"
    /\ calls' = Append(calls, "verify_outputs")
    /\ \E r \in {verify_outputs(files, Len(result[1].records), FALSE, env)} :
           /\ raised' = IF r.raised THEN Some("ParseError") ELSE None
           /\ verify_errors' = IF r.raised THEN None ELSE Some(r.errors)
    /\ pc' = "verified"
    /\ UNCHANGED <<args, env, validation, files, exit_status>>
    /\ UNCHANGED pvars
    /\ UNCHANGED download

NextRoundTrip == ParseHeader \/ ParseRow \/ ParseReturn \/ WriteOutputs \/ VerifyOutputs

SpecRoundTrip == InitRoundTrip /\ [][NextRoundTrip]_vars

-----------------------------------------------------------------------------
(* ValidationResult.ok, as main reads it *)

\* main holds a ValidationResult; nothing is written yet.
InitOk ==
    /\ raw_data = <<>>
    /\ download = NoDownload
    /\ p_state = "start"
    /\ lines = <<>>
    /\ line_no = 0
    /\ records = <<>>
    /\ stand_datum = None
    /\ stand_zeit = None
    /\ p_error = NoError
    /\ result = None
    /\ args = [min_rows |-> 0, skip_verify |-> FALSE]
    /\ env = [lxml |-> FALSE, jsonschema |-> FALSE]
    /\ validation \in {Some(v) : v \in ReportPool}
    /\ pc = "validated"
    /\ files = NoFiles
    /\ verify_errors = None
    /\ raised = None
    /\ exit_status = None
    /\ calls = <<>>

\* Lines 123-134: the warnings are logged; "if not validation.ok" ends the
\* process with status 1, else main goes on to write.
MainCheckOk ==
    /\ pc = "validated"
    /\ IF ~ok(validation[1]) THEN Exit(1)
       ELSE pc' = "write_csv" /\ exit_status' = None
    /\ UNCHANGED <<args, env, validation, files, verify_errors, raised, calls>>
    /\ UNCHANGED pvars
    /\ UNCHANGED download

NextOk == MainCheckOk

SpecOk == InitOk /\ [][NextOk]_vars

-----------------------------------------------------------------------------
(* verify_outputs called on given files *)

InitVerify ==
    /\ raw_data = <<>>
    /\ download = NoDownload
    /\ p_state = "start"
    /\ lines = <<>>
    /\ line_no = 0
    /\ records = <<>>
    /\ stand_datum = None
    /\ stand_zeit = None
    /\ p_error = NoError
    /\ result = None
    /\ args \in VerifyArgsPool
    /\ env \in EnvPool
    /\ validation = None
    /\ pc = "verify_call"
    /\ files \in ArtifactPool
    /\ verify_errors = None
    /\ raised = None
    /\ exit_status = None
    /\ calls = <<>>

\* verify_outputs(csv_path, jsonl_path, xml_path, expected_count[, schemas]):
\* it returns its list, or the exception of the first reader that raised
\* leaves it.
VerifyFiles ==
    /\ pc = "verify_call"
    /\ calls' = Append(calls, "verify_outputs")
    /\ \E r \in {verify_outputs(files, args.expected_count, args.schemas, env)} :
           /\ raised' = IF ~r.raised THEN None
                        ELSE IF _count_csv(files.csv).raised THEN Some("Error")
                        ELSE IF _count_jsonl(files.jsonl).raised THEN Some("JSONDecodeError")
                        ELSE Some("ParseError")
           /\ verify_errors' = IF r.raised THEN None ELSE Some(r.errors)
    /\ pc' = "verify_done"
    /\ UNCHANGED <<args, env, validation, files, exit_status>>
    /\ UNCHANGED pvars
    /\ UNCHANGED download

NextVerify == VerifyFiles

SpecVerify == InitVerify /\ [][NextVerify]_vars

-----------------------------------------------------------------------------
(* download_csv, step by step *)

\* The delays of the model, in seconds.
DelayPool == {0, 1, 3}

\* download_csv(url, retries, delay) is called.
InitDownload ==
    /\ raw_data = <<>>
    /\ p_state = "start"
    /\ lines = <<>>
    /\ line_no = 0
    /\ records = <<>>
    /\ stand_datum = None
    /\ stand_zeit = None
    /\ p_error = NoError
    /\ result = None
    /\ args = [min_rows |-> 0, skip_verify |-> FALSE]
    /\ env = [lxml |-> FALSE, jsonschema |-> FALSE]
    /\ validation = None
    /\ files = NoFiles
    /\ verify_errors = None
    /\ raised = None
    /\ exit_status = None
    /\ calls = <<>>
    /\ pc = "for"
    /\ \E retries \in 0..MaxRetries, delay \in DelayPool :
           download = CallDownload(retries, delay)

\* Lines 25-26 and 35-37: the next attempt of range(retries), or RuntimeError
\* when there is none.
DownloadFor ==
    /\ pc = "for"
    /\ IF download.attempt < download.retries
       THEN /\ pc' = IF download.attempt > 0 THEN "sleep" ELSE "try"
            /\ raised' = raised
       ELSE /\ pc' = "raised"
            /\ raised' = Some("RuntimeError")
    /\ UNCHANGED <<args, env, validation, files, verify_errors, exit_status, calls, download>>
    /\ UNCHANGED pvars

\* Lines 27-28
DownloadSleep ==
    /\ pc = "sleep"
    /\ download' = [download EXCEPT
                        !.slept = Append(@, Wait(download.delay, download.attempt))]
    /\ pc' = "try"
    /\ UNCHANGED <<args, env, validation, files, verify_errors, raised, exit_status, calls>>
    /\ UNCHANGED pvars

\* Lines 29-34: one attempt. The bytes are returned; URLError and OSError are
\* kept in last_error and the loop goes on; any other exception leaves
\* download_csv.
DownloadTry ==
    /\ pc = "try"
    /\ \E r \in UrlopenOutcomes :
           /\ download' = [download EXCEPT
                               !.tried = Append(@, r),
                               !.last_error = IF r.kind \in Caught THEN Some(r.kind) ELSE @,
                               !.attempt = IF r.kind \in Caught THEN @ + 1 ELSE @]
           /\ raw_data' = IF r.kind = "bytes" THEN r.body ELSE raw_data
           /\ raised' = IF r.kind \in Caught \cup {"bytes"} THEN raised ELSE Some(r.kind)
           /\ pc' = IF r.kind = "bytes" THEN "returned"
                    ELSE IF r.kind \in Caught THEN "for" ELSE "raised"
    /\ UNCHANGED <<p_state, lines, line_no, records, stand_datum, stand_zeit, p_error, result>>
    /\ UNCHANGED <<args, env, validation, files, verify_errors, exit_status, calls>>

NextDownload == DownloadFor \/ DownloadSleep \/ DownloadTry

SpecDownload == InitDownload /\ [][NextDownload]_vars
-----------------------------------------------------------------------------
(* verify_schemas called on given files *)

InitSchemas ==
    /\ raw_data = <<>>
    /\ download = NoDownload
    /\ p_state = "start"
    /\ lines = <<>>
    /\ line_no = 0
    /\ records = <<>>
    /\ stand_datum = None
    /\ stand_zeit = None
    /\ p_error = NoError
    /\ result = None
    /\ args = [min_rows |-> 0, skip_verify |-> FALSE]
    /\ env \in [lxml : BOOLEAN, jsonschema : BOOLEAN]
    /\ validation = None
    /\ pc = "schemas_call"
    /\ files \in SchemaArtifactPool
    /\ verify_errors = None
    /\ raised = None
    /\ exit_status = None
    /\ calls = <<>>

\* verify_schemas(jsonl_path, xml_path, json_schema_path, xsd_path)
VerifySchemas ==
    /\ pc = "schemas_call"
    /\ calls' = Append(calls, "verify_schemas")
    /\ verify_errors' =
           Some(verify_schemas(files.jsonl, files.xml, files.json_schema, files.xsd, env))
    /\ pc' = "schemas_done"
    /\ UNCHANGED <<args, env, validation, files, raised, exit_status>>
    /\ UNCHANGED pvars
    /\ UNCHANGED download

NextSchemas == VerifySchemas

SpecSchemas == InitSchemas /\ [][NextSchemas]_vars
-----------------------------------------------------------------------------
(* Claims about the driver, validate_records and the round trip *)

\* The calls main makes, in the order of cli.py.
StageOrder ==
    <<"parse_bmf_csv", "validate_records", "write_csv", "write_jsonl", "write_xml",
      "write_json_schema", "write_xsd", "verify_outputs">>

Serializers == {"write_csv", "write_jsonl", "write_xml"}

Called(f) == \E i \in 1..Len(calls) : calls[i] = f

\* Position of the first call of f, 0 when there is none.
FirstCall(f) == IF Called(f) THEN CHOOSE i \in 1..Len(calls) : calls[i] = f /\ \A j \in 1..(i - 1) : calls[j] # f ELSE 0

ParseRaised == p_state = "raised"
ValidationFailed == validation # None /\ validation[1].errors # <<>>
VerifyFailed == verify_errors # None /\ verify_errors[1] # <<>>
Exited == pc = "exit"
ExitNonZero == exit_status # None /\ exit_status[1] # 0

C2_StageOrder ==
    /\ Len(calls) <= Len(StageOrder)
    /\ \A i \in 1..Len(calls) : calls[i] = StageOrder[i]
    /\ (\E f \in Serializers : Called(f)) =>
           /\ p_state = "returned" /\ result # None
           /\ validation # None /\ validation[1].errors = <<>>
    /\ Called("verify_outputs") =>
           \A f \in Serializers :
               /\ Called(f)
               /\ FirstCall(f) < FirstCall("verify_outputs")
               /\ files[IF f = "write_csv" THEN "csv" ELSE IF f = "write_jsonl" THEN "jsonl" ELSE "xml"] # None

\* main has run through all stages, and verify_outputs was the last.
C2_Witness ==
    /\ Exited /\ exit_status = Some(0)
    /\ calls = StageOrder

\* The names the readers are to hand back for a batch: those of the first
\* and the last record when there are two records or more, else all.
FirstLast(names) ==
    IF Len(names) >= 2 THEN <<names[1], names[Len(names)]>> ELSE names

BatchNames == [i \in 1..Len(result[1].records) |-> PyStr(result[1].records[i].name)]

ReaderOk(r) ==
    /\ ~r.raised
    /\ r.count = Len(result[1].records)
    /\ r.names = FirstLast(BatchNames)

\* C5: once write_csv, write_jsonl and write_xml have written the batch of n
\* records that parse_bmf_csv returned, _count_csv, _count_jsonl and
\* _count_xml each complete with count n and the names of the first and the
\* last record, and verify_outputs without schemas returns the empty list.
C5_RoundTrip ==
    /\ pc \in {"written", "verified"} =>
           /\ ReaderOk(_count_csv(files.csv))
           /\ ReaderOk(_count_jsonl(files.jsonl))
           /\ ReaderOk(_count_xml(files.xml))
    /\ pc = "verified" => raised = None /\ verify_errors = Some(<<>>)

\* verify_outputs has reported a batch that the serializers wrote.
C5_Witness ==
    /\ pc = "verified"
    /\ Len(result[1].records) >= 1
    /\ raised = None /\ verify_errors # None /\ verify_errors[1] # <<>>

\* C6: validate_records does not raise; once called it has returned a
\* ValidationResult.
C6_NeverRaises ==
    Called("validate_records") => raised = None /\ validation # None

\* validate_records raised on a batch that parse_bmf_csv returned.
C6_Witness ==
    /\ Called("validate_records")
    /\ p_state = "returned" /\ Len(result[1].records) >= 1
    /\ raised = Some("AttributeError") /\ validation = None

-----------------------------------------------------------------------------
(* Claims about validate_records *)

\* The batch validate_records was called on, and its min_rows.
Batch == result[1].records

\* The entries of a list of findings that are the row-count error.
RowCountErrors(entries) ==
    SelectSeq(entries, LAMBDA e : e.row = 0 /\ e.field = "row_count")

\* C11: the report of validate_records holds exactly one error with row 0,
\* field row_count and the decimal record count as value when the batch has
\* fewer than min_rows records, and no such error otherwise.
C11_RowCount ==
    Called("validate_records") =>
        /\ Len(Batch) < args.min_rows =>
               /\ validation # None
               /\ RowCountErrors(validation[1].errors)
                      = <<[row |-> 0, field |-> "row_count", value |-> Some(StrOfInt(Len(Batch)))]>>
               /\ RowCountErrors(validation[1].warnings) = <<>>
        /\ (Len(Batch) >= args.min_rows /\ validation # None) =>
               /\ RowCountErrors(validation[1].errors) = <<>>
               /\ RowCountErrors(validation[1].warnings) = <<>>

\* validate_records was called on a batch of min_rows - 1 >= 1 records and
\* left no report.
C11_Witness ==
    /\ Called("validate_records")
    /\ Len(Batch) >= 1 /\ Len(Batch) = args.min_rows - 1
    /\ validation = None

\* C12: ValidationResult.ok is true exactly when the errors list is empty,
\* whatever the number of warnings: main goes on to write exactly when the
\* report has no error and exits with status 1 exactly when it has one.
C12_OkIffNoErrors ==
    /\ pc = "write_csv" => validation[1].errors = <<>>
    /\ pc = "exit" => validation[1].errors # <<>> /\ exit_status = Some(1)

\* A report with two warnings or more and no error was found ok.
C12_Witness ==
    /\ pc = "write_csv"
    /\ validation[1].errors = <<>>
    /\ Len(validation[1].warnings) >= 2

\* A record whose Kennziffer is present and does not match the pattern.
BadKennziffer(rec) == rec.kennziffer # None /\ ~_RE_KENNZIFFER(rec.kennziffer[1])

HasFinding(entries, row, field) ==
    \E k \in 1..Len(entries) : entries[k].row = row /\ entries[k].field = field

\* C13: for every record whose Kennziffer is present and does not match the
\* pattern, the report of validate_records holds a warning for that row and
\* no error for that field; a report without errors is ok.
C13_KennzifferWarning ==
    Called("validate_records") =>
        \A i \in 1..Len(Batch) :
            BadKennziffer(Batch[i]) =>
                /\ validation # None
                /\ HasFinding(validation[1].warnings, i, "kennziffer_ur")
                /\ ~HasFinding(validation[1].errors, i, "kennziffer_ur")
                /\ validation[1].errors = <<>> => ok(validation[1])

\* validate_records was called on a batch with such a record and left no
\* report.
C13_Witness ==
    /\ Called("validate_records")
    /\ \E i \in 1..Len(Batch) : BadKennziffer(Batch[i])
    /\ validation = None /\ raised = Some("AttributeError")

\* The findings of a list that belong to one row.
OfRow(entries, row) == SelectSeq(entries, LAMBDA e : e.row = row)

\* The rows of a list of findings never go down.
Ascending(entries) ==
    \A k \in 1..(Len(entries) - 1) : entries[k].row <= entries[k + 1].row

\* The findings of record i when it is validated alone, under its own row.
Alone(i) ==
    LET single == validate_records([records |-> <<Batch[i]>>], 0)
        Renumber(entries) == [k \in 1..Len(entries) |-> [entries[k] EXCEPT !.row = i]]
    IN  [raised |-> single.raised,
         errors |-> Renumber(single.errors),
         warnings |-> Renumber(single.warnings)]

\* C14: validate_records inspects every record: its report holds, for each
\* record, under the record's 1-based position, the findings that record has
\* when validated alone; the entries are in ascending row order, the
\* row_count error (row 0) first.
C14_Accumulates ==
    Called("validate_records") =>
        /\ validation # None
        /\ Ascending(validation[1].errors) /\ Ascending(validation[1].warnings)
        /\ \A k \in 1..Len(validation[1].errors) :
               validation[1].errors[k].row \in 0..Len(Batch)
        /\ \A k \in 1..Len(validation[1].warnings) :
               validation[1].warnings[k].row \in 1..Len(Batch)
        /\ \A i \in 1..Len(Batch) :
               /\ Alone(i).raised = None
               /\ OfRow(validation[1].errors, i) = Alone(i).errors
               /\ OfRow(validation[1].warnings, i) = Alone(i).warnings

\* validate_records stopped with an exception on a batch of two records or
\* more: no finding of any record is in a report.
C14_Witness ==
    /\ Called("validate_records")
    /\ Len(Batch) >= 2
    /\ validation = None /\ raised = Some("AttributeError")

-----------------------------------------------------------------------------
(* Claims about the serializers *)

Written == pc \in {"written", "verified"}

\* The data rows of the CSV artifact, read by a CSV reader that is given
\* every line after the Stand comment: the rows after the header row.
CsvDataRows ==
    Tail(CsvRows(Tail(FileLinesRaw(DecodeUtf8Sig(files.csv[1])))).rows)

\* The objects of the JSONL artifact after its metadata line.
JsonlDataObjects ==
    LET ls == FileLines(files.jsonl[1])
    IN  [k \in 1..(Len(ls) - 1) |-> JsonLoads(Strip(ls[k + 1]))]

\* The number of start tags of record elements in the XML artifact.
XmlStartTags ==
    Cardinality({i \in 1..(Len(files.xml[1]) - 1) :
                     files.xml[1][i] = "<" /\ files.xml[1][i + 1] = "scheinfirma"})

\* The record elements of the XML artifact, as an XML parser hands them over.
XmlDataElements == XmlParse(files.xml[1]).entries

\* An XML parser hands over every line end of a text as "\n".
AsXmlText(s) == NormalizeNewlines(s)

\* C15: write_csv, write_jsonl and write_xml each return len(batch.records),
\* and each artifact holds exactly that many data records, in the order of
\* the batch, none left out.
C15_WritersKeepAll ==
    Written =>
        /\ WrittenCount(result[1]) = Len(Batch)
        /\ Len(CsvDataRows) = Len(Batch)
        /\ \A i \in 1..Len(Batch) : CsvDataRows[i][1] = Batch[i].name
        /\ Len(JsonlDataObjects) = Len(Batch)
        /\ \A i \in 1..Len(Batch) :
               /\ JsonlDataObjects[i].ok
               /\ JsonGet(JsonlDataObjects[i], "name") = PyStr(Batch[i].name)
        /\ XmlStartTags = Len(Batch)
        /\ XmlParse(files.xml[1]).ok =>
               /\ Len(XmlDataElements) = Len(Batch)
               /\ \A i \in 1..Len(Batch) : XmlDataElements[i].text = AsXmlText(Batch[i].name)

\* A batch of two different records or more was written, one of them without
\* a name.
C15_Witness ==
    /\ Written
    /\ Len(Batch) >= 2
    /\ Batch[1].name # Batch[2].name
    /\ \E i \in 1..Len(Batch) : Batch[i].name = <<>>

\* The nine keys of a record, in their order, and those that may be None.
FieldNames ==
    <<"name", "anschrift", "veroeffentlicht", "rechtskraeftig", "seit", "geburtsdatum",
      "fbnr", "uid", "kennziffer">>
OptionalFields == {5, 6, 7, 8, 9}

\* The value of field k of a record, as an optional str.
FieldOf(rec, k) == IF k \in OptionalFields THEN rec[FieldNames[k]] ELSE Some(rec[FieldNames[k]])

-----------------------------------------------------------------------------
(* Claims about verify_outputs *)

Formats == {"CSV", "JSONL", "XML"}

\* What the reader of a format gives for the file verify_outputs was called on.
Reread(fmt) ==
    CASE fmt = "CSV"   -> _count_csv(files.csv)
      [] fmt = "JSONL" -> _count_jsonl(files.jsonl)
      [] fmt = "XML"   -> _count_xml(files.xml)

\* verify_outputs has returned its list.
Returned == pc = "verify_done" /\ verify_errors # None

CountErrors(fmt) ==
    SelectSeq(verify_errors[1], LAMBDA e : e.kind = "count" /\ e.what = fmt)
NameErrors(label) ==
    SelectSeq(verify_errors[1], LAMBDA e : e.kind = "name" /\ e.what = label)

\* The first and the last name a reader gave (it gave one at least).
FirstName(fmt) == Reread(fmt).names[1]
LastName(fmt) == Reread(fmt).names[Len(Reread(fmt).names)]
FirstNamesDiffer == \E f, g \in Formats : FirstName(f) # FirstName(g)
LastNamesDiffer == \E f, g \in Formats : LastName(f) # LastName(g)

\* C17: the list verify_outputs returns holds exactly one count-mismatch
\* error for each format whose re-read count differs from expected_count,
\* naming the format, the expected and the found count, and none for a
\* format whose count equals it.
C17_CountMismatch ==
    Returned =>
        \A fmt \in Formats :
            CountErrors(fmt) =
                (IF Reread(fmt).count # args.expected_count
                 THEN <<[kind |-> "count", what |-> fmt, expected |-> args.expected_count,
                         found |-> Reread(fmt).count, names |-> <<>>]>>
                 ELSE <<>>)

\* The CSV file alone holds another number of records than expected.
C17_Witness ==
    /\ Returned
    /\ Reread("CSV").count # args.expected_count
    /\ Reread("JSONL").count = args.expected_count
    /\ Reread("XML").count = args.expected_count
    /\ Len(CountErrors("CSV")) = 1

C19_NameMismatch ==
    (Returned /\ \A fmt \in Formats : Reread(fmt).count >= 2) =>
        /\ Len(NameErrors("First")) = (IF FirstNamesDiffer THEN 1 ELSE 0)
        /\ Len(NameErrors("Last")) = (IF LastNamesDiffer THEN 1 ELSE 0)
        /\ ((\A fmt \in Formats : Reread(fmt).count = args.expected_count)
                /\ FirstNamesDiffer /\ ~LastNamesDiffer) =>
               /\ Len(NameErrors("First")) + Len(NameErrors("Last")) = 1
               /\ \A fmt \in Formats : CountErrors(fmt) = <<>>

\* Three artifacts of two records each, as expected, of which one has another
\* first name: one name-mismatch error.
C19_Witness ==
    /\ Returned
    /\ \A fmt \in Formats : Reread(fmt).count = 2 /\ args.expected_count = 2
    /\ FirstName("CSV") # FirstName("JSONL") /\ FirstName("JSONL") = FirstName("XML")
    /\ ~LastNamesDiffer
    /\ Len(NameErrors("First")) = 1 /\ NameErrors("Last") = <<>>

\* C20: verify_outputs does not raise, whatever the three files hold: once
\* called it has returned its list of errors.
C20_NeverAborts ==
    pc = "verify_done" => raised = None /\ verify_errors # None

\* verify_outputs was left by the exception of json.loads on a JSONL line
\* that is not JSON, although the CSV count differs from the expected one.
C20_Witness ==
    /\ pc = "verify_done"
    /\ raised = Some("JSONDecodeError") /\ verify_errors = None
    /\ Reread("CSV").count # args.expected_count

-----------------------------------------------------------------------------
(* Claims about download_csv *)

\* The attempts download_csv has made so far, and how each ended.
Attempts == download.tried
Failed(i) == Attempts[i].kind \in Caught
Succeeded(i) == Attempts[i].kind = "bytes"
DownloadReturned == pc = "returned"
DownloadRaised == pc = "raised"
DownloadDone == DownloadReturned \/ DownloadRaised

\* C21: download_csv makes at most `retries` attempts, one after another, and
\* makes no attempt after a successful one; when it returns, it returns the
\* bytes of that successful attempt; a call that has ended has returned bytes
\* or raised RuntimeError, and it raised RuntimeError exactly when it made
\* `retries` attempts and each of them failed with URLError or OSError.
C21_DownloadOutcome ==
    /\ Len(Attempts) <= download.retries
    /\ \A i \in 1..(Len(Attempts) - 1) : ~Succeeded(i)
    /\ DownloadReturned =>
           /\ Attempts # <<>>
           /\ Succeeded(Len(Attempts))
           /\ raw_data = Attempts[Len(Attempts)].body
           /\ raised = None
    /\ DownloadRaised => raised = Some("RuntimeError")
    /\ DownloadDone =>
           (raised = Some("RuntimeError")
                <=> /\ Len(Attempts) = download.retries
                    /\ \A i \in 1..Len(Attempts) : Failed(i))

\* A call that ended with neither outcome: its first attempt failed with
\* URLError, its second gave an exception that is not caught.
C21_Witness ==
    /\ DownloadRaised
    /\ Len(Attempts) = 2
    /\ Attempts[1].kind = "URLError"
    /\ Attempts[2].kind = "HTTPException"
    /\ raised = Some("HTTPException")
    /\ download.retries > 2

\* The number of attempts begun: those that ended and the one under way.
Begun == Len(Attempts) + (IF pc = "try" THEN 1 ELSE 0)

\* C22: there is no sleep before the first attempt and none after the last;
\* before the k-th attempt (k >= 2) download_csv sleeps delay * 2^(k-2), so
\* with m attempts begun it has slept m-1 times, for delay, 2*delay,
\* 4*delay, ... in this order.
C22_SleepSchedule ==
    /\ Len(download.slept) = (IF Begun = 0 THEN 0 ELSE Begun - 1)
    /\ \A k \in 2..(Len(download.slept) + 1) :
           download.slept[k - 1] = download.delay * (2 ^ (k - 2))
    /\ pc = "sleep" => Len(Attempts) >= 1

\* A call that made four attempts and slept three times, for a delay that is
\* not 0.
C22_Witness ==
    /\ DownloadDone
    /\ Len(Attempts) = 4
    /\ Len(download.slept) = 3
    /\ download.delay > 0
-----------------------------------------------------------------------------
(* What the claims about parse_bmf_csv speak of, read off the input *)

Terminal == p_state \in {"returned", "raised"}

\* The number of parts a split on "~" gives.
TildeParts(line) == Cardinality({i \in 1..Len(line) : line[i] = TILDE}) + 1

\* The field count of a data line once an empty 10th field is dropped.
FieldCount(line) ==
    IF TildeParts(line) = 10 /\ line[Len(line)] = TILDE THEN 9 ELSE TildeParts(line)

IsBlank(line) == \A i \in 1..Len(line) : IsWS(line[i])
MatchesStand(line) == StandMatch(Strip(line)).matched
IsDataLine(line) == ~IsBlank(line) /\ ~MatchesStand(line)

\* The lines after the header that are data lines, in order.
DataLines == SelectSeq(Tail(lines), IsDataLine)

\* Field k of a line, cleaned.
CleanedField(line, k) == Strip(HtmlUnescape(Split(line, TILDE)[k]))

\* The dates of the inputs that are real calendar dates: written DD.MM.YYYY, or
\* with a one-digit day and month.
PaddedDates == {D_ok1, D_ok2}
UnpaddedDates == {D_short}

\* The YYYY-MM-DD form of each.
IsoOf(d) ==
    CASE d = D_ok1   -> <<"2", "0", "2", "4", "-", "0", "1", "-", "0", "1">>
      [] d = D_ok2   -> <<"2", "0", "2", "4", "-", "0", "2", "-", "2", "9">>
      [] d = D_short -> <<"2", "0", "2", "4", "-", "0", "2", "-", "0", "1">>

\* The date fields of a line that must hold a date: the two required ones and
\* the optional ones that are not empty after cleaning.
DatesDue(line) ==
    {k \in 3..6 : k \in {3, 4} \/ CleanedField(line, k) # <<>>}

\* A data line the parser must refuse.
WrongCount(line) == FieldCount(line) # 9
BadDate(line) ==
    /\ FieldCount(line) = 9
    /\ \E k \in DatesDue(line) : CleanedField(line, k) \notin PaddedDates \cup UnpaddedDates

-----------------------------------------------------------------------------
(* Claims *)

\* C3: parse_bmf_csv is all-or-nothing.  If any line after the header is a data
\* row with a wrong field count or an unparsable date, the call raises and
\* yields no batch; a batch is yielded only by a call that returned.
C3_AllOrNothing ==
    /\ result # None => p_state = "returned"
    /\ (Terminal /\ \E i \in 2..Len(lines) :
            IsDataLine(lines[i]) /\ (WrongCount(lines[i]) \/ BadDate(lines[i])))
       => (p_state = "raised" /\ result = None)

\* C3, witness: the call raised on a bad row after it had parsed rows.
C3_Witness ==
    /\ p_state = "raised" /\ p_error.kind \in {"field_count", "date"}
    /\ Len(records) >= 1 /\ result = None

\* C4: when parse_bmf_csv succeeds, the records correspond one-to-one and in
\* order to the non-blank lines after the header that are not Stand lines, and
\* raw_row_count equals len(records).
C4_RecordsInOrder ==
    p_state = "returned" =>
        /\ Len(result[1].records) = Len(DataLines)
        /\ \A k \in 1..Len(DataLines) :
              /\ k <= Len(result[1].records)
              /\ result[1].records[k].name = CleanedField(DataLines[k], 1)
              /\ result[1].records[k].veroeffentlicht = IsoOf(CleanedField(DataLines[k], 3))
        /\ result[1].raw_row_count = Len(result[1].records)

\* C4, witness: a batch of two different records, with other lines among them.
C4_Witness ==
    /\ p_state = "returned"
    /\ Len(result[1].records) = 2
    /\ result[1].records[1].name # result[1].records[2].name
    /\ Len(lines) > 4

\* The header of the claim C7: 9 fields that, trimmed, are the expected names
\* in the expected order.
ExpectedHeader(line) ==
    LET f == Split(line, TILDE)
    IN  Len(f) = 9 /\ \A i \in 1..9 : Strip(f[i]) = EXPECTED_HEADERS[i]

\* C7: parse_bmf_csv proceeds past line 1 only if line 1, split on "~" and
\* trimmed, is the 9 expected names in order; any other header raises the
\* header-mismatch error, whatever follows, and nothing of the rest is parsed.
C7_HeaderExact ==
    p_state # "start" =>
        /\ (p_error = HeaderError) <=> ~ExpectedHeader(lines[1])
        /\ ~ExpectedHeader(lines[1]) =>
              (p_state = "raised" /\ records = <<>> /\ stand_datum = None /\ result = None)

\* C7, witness: a header with a misspelt name, followed by lines, was refused.
C7_Witness ==
    /\ p_state = "raised" /\ p_error = HeaderError
    /\ Len(lines) > 2 /\ Len(Split(lines[1], TILDE)) = 9

\* C8: on a data line, an empty 10th field of exactly 10 is dropped; after that
\* a field count other than 9 makes parse_bmf_csv raise an error that carries
\* the 1-based number of the line and the field count.
C8_FieldCountError ==
    /\ \A i \in 2..(line_no - 1) :
          (i <= Len(lines) /\ IsDataLine(lines[i])) => FieldCount(lines[i]) = 9
    /\ (/\ p_state = "raised" /\ p_error.kind \in {"field_count", "date"}
        /\ IsDataLine(lines[line_no]) /\ FieldCount(lines[line_no]) # 9)
       => p_error = [kind |-> "field_count", line |-> line_no,
                     count |-> FieldCount(lines[line_no]), value |-> <<>>]
    /\ p_error.kind = "field_count"
       => (/\ p_state = "raised" /\ IsDataLine(lines[line_no])
           /\ FieldCount(lines[line_no]) # 9)

\* C8, witness: a line of 11 parts, the last one empty, was refused as line 3
\* or later with count 11.
C8_Witness ==
    /\ p_state = "raised" /\ p_error.kind = "field_count"
    /\ p_error.count = 11 /\ p_error.line >= 3

NoStandLine == \A i \in 2..Len(lines) : ~MatchesStand(lines[i])

\* The number of data lines among the lines the loop is done with.
DataLinesDone ==
    Cardinality({i \in 2..(line_no - 1) : i <= Len(lines) /\ IsDataLine(lines[i])})

\* C9 as stated: parse_bmf_csv raises the missing-timestamp error if and only
\* if no line after the header matches the Stand pattern.
C9_Original == Terminal => ((p_error = NoStandError) <=> NoStandLine)

\* C9 as amended: when the header matches and no line makes the parser raise,
\* it raises the missing-timestamp error if and only if no line after the
\* header matches the Stand pattern; it decides this after the last line, a
\* Stand line at any position is enough, and a Stand line makes no record.
C9_MissingStand ==
    /\ p_error = NoStandError
       => (p_state = "raised" /\ line_no > Len(lines) /\ NoStandLine)
    /\ p_state = "returned" => (line_no > Len(lines) /\ ~NoStandLine)
    /\ (Terminal /\ p_error.kind \notin {"header", "empty", "field_count", "date"})
       => ((p_error = NoStandError) <=> NoStandLine)
    /\ p_state # "start" /\ p_error.kind # "header" => Len(records) = DataLinesDone

\* C9, witness: the call returned on an input whose Stand line comes before a
\* data row.
C9_Witness ==
    /\ p_state = "returned"
    /\ \E i \in 2..Len(lines) : \E j \in (i + 1)..Len(lines) :
          MatchesStand(lines[i]) /\ IsDataLine(lines[j])

\* C10 as stated: a date that is due and is not a real calendar date written
\* DD.MM.YYYY makes parse_bmf_csv raise, so no such row is in a batch.
C10_Original ==
    p_state = "returned" =>
        \A i \in 2..Len(lines) : IsDataLine(lines[i]) =>
            \A k \in DatesDue(lines[i]) : CleanedField(lines[i], k) \in PaddedDates

\* The date fields of a record, in the order of the columns 3..6.
RecordDate(rec, k) ==
    CASE k = 3 -> Some(rec.veroeffentlicht)
      [] k = 4 -> Some(rec.rechtskraeftig)
      [] k = 5 -> rec.seit
      [] k = 6 -> rec.geburtsdatum

\* C10 as amended: a date that is due and is not a real calendar date written
\* with a one- or two-digit day, a one- or two-digit month and a four-digit
\* year (D.M.YYYY or DD.MM.YYYY) makes parse_bmf_csv raise with that value in
\* the error; no day or month is clamped: a batch holds only such dates, each
\* converted to the same day, month and year.
C10_BadDateRaises ==
    /\ p_state = "returned" =>
          \A n \in 1..Len(DataLines) :
              /\ ~BadDate(DataLines[n])
              /\ n <= Len(result[1].records)
              /\ \A k \in 3..6 :
                    RecordDate(result[1].records[n], k) =
                        IF k \in DatesDue(DataLines[n])
                        THEN Some(IsoOf(CleanedField(DataLines[n], k)))
                        ELSE None
    /\ (/\ p_state = "raised" /\ p_error.kind \in {"field_count", "date"}
        /\ IsDataLine(lines[line_no]) /\ BadDate(lines[line_no]))
       => (/\ p_error.kind = "date"
           /\ \E k \in DatesDue(lines[line_no]) :
                 /\ p_error.value = CleanedField(lines[line_no], k)
                 /\ p_error.value \notin PaddedDates \cup UnpaddedDates)

\* C10, witness: the 31st of April in an optional date field was refused.
C10_Witness ==
    /\ p_state = "raised" /\ p_error.kind = "date"
    /\ p_error.value = D_apr31 /\ Len(records) >= 1

-----------------------------------------------------------------------------
(* Claims about verify_schemas *)

\* verify_schemas has returned its list.
SchemasReturned == pc = "schemas_done" /\ verify_errors # None

JsonlErrors == SelectSeq(verify_errors[1], LAMBDA e : e.kind = "jsonl")
XmlErrors == SelectSeq(verify_errors[1], LAMBDA e : e.kind \in {"xsd", "xml_run"})

\* The lines of the JSONL file verify_schemas was called on.
JsonlLines == FileLines(files.jsonl[1])

\* _count_jsonl counts the line as a record.
Counted(line) == _count_jsonl(Some(line)).count = 1

\* verify_schemas, with jsonschema at hand, reports the line.
Reported(line) ==
    verify_schemas(Some(line), files.xml, files.json_schema, files.xsd,
                   [lxml |-> FALSE, jsonschema |-> TRUE]) # <<>>

\* The line is no object that JSON_SCHEMA allows.
Violates(line) == ~(JsonLoads(line).ok /\ JsonSchemaValid(JsonLoads(line)))

\* The line holds both of the keys "_metadata" and "$schema" or none of them.
Unambiguous(line) ==
    /\ JsonLoads(line).ok
    /\ JsonHas(JsonLoads(line), "_metadata") <=> JsonHas(JsonLoads(line), "$schema")

ViolatingRecords == {i \in 1..Len(JsonlLines) : Counted(JsonlLines[i]) /\ Violates(JsonlLines[i])}

\* C23: with jsonschema at hand, the list verify_schemas returns for a file
\* of a metadata line and record lines holds one JSONL error for each record
\* line that violates JSON_SCHEMA, k errors for k such lines; and with lxml
\* at hand the errors about the XML document are those that the document
\* gets with any other JSONL file.
C23_EveryLineValidated ==
    SchemasReturned =>
        /\ (env.jsonschema /\ \A i \in 1..Len(JsonlLines) : Unambiguous(JsonlLines[i]))
               => Len(JsonlErrors) = Cardinality(ViolatingRecords)
        /\ XmlErrors =
               SelectSeq(verify_schemas(Some(JsonlFile(<<GoodLine>>)), files.xml,
                                        files.json_schema, files.xsd, env),
                         LAMBDA e : e.kind \in {"xsd", "xml_run"})

\* The metadata line of write_jsonl and two record lines that lack required
\* fields: one error is returned.
C23_Witness ==
    /\ SchemasReturned
    /\ env.jsonschema
    /\ files.jsonl = Some(JsonlFile(<<MetaLine, BadLine, BadLine>>))
    /\ Cardinality(ViolatingRecords) = 2
    /\ Len(JsonlErrors) = 1

\* C29: _count_jsonl and verify_schemas agree on the lines that are
\* metadata: of the lines that JSON_SCHEMA does not allow, verify_schemas
\* reports exactly those that _count_jsonl counts as records, so that a line
\* left out of the count is left out of the validation and a line counted is
\* validated.
C29_ReadersAgree ==
    (SchemasReturned /\ env.jsonschema) =>
        \A i \in 1..Len(JsonlLines) :
            Violates(JsonlLines[i]) => (Counted(JsonlLines[i]) <=> Reported(JsonlLines[i]))

\* A file of a line with the key "_metadata" alone and the line of a valid
\* record: _count_jsonl counts one record, and verify_schemas reports the
\* file although the record is valid.
C29_Witness ==
    /\ SchemasReturned
    /\ env.jsonschema
    /\ files.jsonl = Some(JsonlFile(<<MetaOnlyLine, GoodLine>>))
    /\ _count_jsonl(files.jsonl).count = 1
    /\ ~Violates(JsonlLines[2])
    /\ Len(JsonlErrors) = 1
-----------------------------------------------------------------------------
(* Claims about _clean_kennziffer *)

\* The code of the row after html.unescape and strip.
Unescaped(kz) == Strip(HtmlUnescape(kz))

\* The text stands between a pair of quotes.
Wrapped(u) == Len(u) >= 2 /\ u[1] = "\"" /\ u[Len(u)] = "\""

\* The text without its outermost pair of quotes, None when nothing is left.
OneLayerOff(u) ==
    LET inner == Strip(SubSeq(u, 2, Len(u) - 1))
    IN  IF inner # <<>> THEN Some(inner) ELSE None

\* C24: the kennziffer of a record is the code of its row, unescaped, with
\* one layer of surrounding quotes taken off: a code wrapped in one pair of
\* quotes loses that pair, a code wrapped in two pairs keeps the inner pair.
C24_OneLayerStripped ==
    p_state = "returned" =>
        \A kz \in KennzifferPool :
            (raw_data = KennzifferInput(kz) /\ Wrapped(Unescaped(kz)))
                => result[1].records[1].kennziffer = OneLayerOff(Unescaped(kz))

\* The code R wrapped in two pairs of escaped quotes comes out as R.
C24_Witness ==
    /\ p_state = "returned"
    /\ raw_data = KennzifferInput(<<"&quot;", "&quot;", "R", "&quot;", "&quot;">>)
    /\ result[1].records[1].kennziffer = Some(<<"R">>)
-----------------------------------------------------------------------------
(* Claims about the schemas and the artifacts of a run of main *)

ArtifactKeys == {"csv", "jsonl", "xml", "json_schema", "xsd"}
SchemaErrors == SelectSeq(verify_errors[1], LAMBDA e : e.kind \in {"xsd", "xml_run", "jsonl"})

\* C25: when parse_bmf_csv returned a batch and validate_records accepted
\* it, verify_outputs, called by main with both schema paths and the number
\* of records of the batch, returns the empty list: the XML file is valid
\* against the XSD and the record lines against the JSON Schema.
C25_SchemaCompliance ==
    (Exited /\ Called("verify_outputs") /\ verify_errors # None) =>
        /\ verify_errors[1] = <<>>
        /\ SchemaErrors = <<>>

\* The batch without records, accepted with --min-rows 0, and lxml at hand:
\* verify_outputs returns errors about the XML file and no other.
C25_Witness ==
    /\ Exited /\ Called("verify_outputs")
    /\ result[1].records = <<>> /\ args.min_rows = 0
    /\ validation # None /\ ok(validation[1])
    /\ env.lxml
    /\ verify_errors # None /\ verify_errors[1] # <<>>
    /\ \A i \in 1..Len(verify_errors[1]) : verify_errors[1][i].kind = "xsd"

-----------------------------------------------------------------------------
(* Claims about the dates of a batch *)

\* The dates of a record that are not None.
DatesOf(rec) ==
    {rec.veroeffentlicht, rec.rechtskraeftig}
        \cup (IF rec.seit # None THEN {rec.seit[1]} ELSE {})
        \cup (IF rec.geburtsdatum # None THEN {rec.geburtsdatum[1]} ELSE {})

\* C27: in a batch that parse_bmf_csv returns, every date of every record
\* and the stand_datum of the batch match the pattern of the validator, four
\* digits, two digits and two digits with "-" between them.
C27_DatesIso ==
    p_state = "returned" =>
        /\ \A i \in 1..Len(result[1].records) :
               \A d \in DatesOf(result[1].records[i]) : _RE_ISO_DATE(d)
        /\ _RE_ISO_DATE(result[1].stand_datum)

\* A row published on 01.01.0999 is returned with the date 999-01-01.
C27_Witness ==
    /\ p_state = "returned"
    /\ Len(result[1].records) = 1
    /\ result[1].records[1].veroeffentlicht = <<"9", "9", "9", "-", "0", "1", "-", "0", "1">>
    /\ ~_RE_ISO_DATE(result[1].records[1].veroeffentlicht)
-----------------------------------------------------------------------------
(* Claims about the lines of the CSV file and the declared counts *)

\* The physical lines of the CSV artifact, each with its terminator.
CsvPhysicalLines == FileLinesRaw(DecodeUtf8Sig(files.csv[1]))

\* The comment write_csv puts first.
CsvStandComment(res) ==
    <<"#", " ">> \o StandPrefix \o <<" ">> \o res.stand_datum \o <<" ">> \o res.stand_zeit \o <<LF>>

\* C26: the file write_csv writes has len(records) + 2 physical lines: the
\* "# Stand:" comment, the header row of 9 columns, and then one line for
\* each record, in the order of the batch.
C26_CsvPhysicalLines ==
    Written =>
        /\ Len(CsvPhysicalLines) = Len(Batch) + 2
        /\ CsvPhysicalLines[1] = CsvStandComment(result[1])
        /\ CsvPhysicalLines[2] = writerow(CSV_HEADERS)
        /\ Len(Split(CsvPhysicalLines[2], ",")) = 9
        /\ \A i \in 1..Len(Batch) : CsvPhysicalLines[i + 2] = writerow(CsvRow(Batch[i]))

\* A batch of one record whose name holds a line feed is written on four
\* physical lines.
C26_Witness ==
    /\ Written
    /\ Len(Batch) = 1
    /\ \E i \in 1..Len(Batch[1].name) : Batch[1].name[i] = LF
    /\ Len(CsvPhysicalLines) = 4

\* The run of digits of s that starts at position i, as a number.
NumberAt(s, i) ==
    LET n == CHOOSE k \in 0..(Len(s) - i + 1) :
                 /\ \A j \in i..(i + k - 1) : s[j] \in Digits
                 /\ (i + k > Len(s) \/ s[i + k] \notin Digits)
    IN  IntOf(SubSeq(s, i, i + n - 1))

\* The position of the first atom a in s.
FirstAt(s, a) == CHOOSE i \in 1..Len(s) : s[i] = a /\ \A j \in 1..(i - 1) : s[j] # a

\* "count" of _metadata in the first line of the JSONL artifact: the number
\* after "count": .
JsonlDeclaredCount ==
    LET l == FileLines(files.jsonl[1])[1] IN NumberAt(l, FirstAt(l, "count") + 4)

\* anzahl of the root element of the XML artifact: the number after anzahl=" .
XmlDeclaredCount == NumberAt(files.xml[1], FirstAt(files.xml[1], "anzahl") + 3)

====
